---- MODULE Spec2Model ----
(***************************************************************************)
(* Model of the jpleph ephemeris reader: header decoding (initEphemeris),  *)
(* the one-record cache and the state assembler (State), the Chebyshev     *)
(* interpolator (interp) and the relative-state resolver (Pleph), together *)
(* with the Ephemeris wrapper (NewEphemeris, CalculatePV, Close).          *)
(*                                                                         *)
(* float64 values are modelled as exact rationals [n, d] in lowest terms;  *)
(* uint32 header words are modelled byte by byte where the byte order      *)
(* matters.                                                                *)
(***************************************************************************)
EXTENDS Integers, Sequences, FiniteSets, TLC

(***************************************************************************)
(* Exact rationals standing for float64.                                   *)
(***************************************************************************)
Abs(x) == IF x < 0 THEN 0 - x ELSE x

RECURSIVE GCD(_, _)
GCD(a, b) == IF b = 0 THEN a ELSE GCD(b, a % b)

Rat(n, d) ==
  LET s == IF d < 0 THEN 0 - 1 ELSE 1
      g == GCD(Abs(n), Abs(d))
  IN  IF n = 0 THEN [n |-> 0, d |-> 1]
      ELSE [n |-> (s * n) \div g, d |-> (s * d) \div g]

RInt(k) == [n |-> k, d |-> 1]

RZero == RInt(0)

ROne == RInt(1)

RNeg(a) == [n |-> 0 - a.n, d |-> a.d]

RAdd(a, b) ==
  IF a.n = 0 THEN b
  ELSE IF b.n = 0 THEN a
  ELSE IF a.d = 1 /\ b.d = 1 THEN [n |-> a.n + b.n, d |-> 1]
  ELSE LET g == GCD(a.d, b.d)
       IN  Rat(a.n * (b.d \div g) + b.n * (a.d \div g), (a.d \div g) * b.d)

RSub(a, b) == RAdd(a, RNeg(b))

RMul(a, b) ==
  IF a.n = 0 \/ b.n = 0 THEN RZero
  ELSE IF a.d = 1 /\ b.d = 1 THEN [n |-> a.n * b.n, d |-> 1]
  ELSE LET g1 == GCD(Abs(a.n), b.d)
           g2 == GCD(Abs(b.n), a.d)
       IN  [n |-> (a.n \div g1) * (b.n \div g2), d |-> (a.d \div g2) * (b.d \div g1)]

RInv(a) == IF a.n < 0 THEN [n |-> 0 - a.d, d |-> 0 - a.n] ELSE [n |-> a.d, d |-> a.n]

RDiv(a, b) == RMul(a, RInv(b))

\* a < b: by the integer parts (rounded down), then by what is left over
RLt(a, b) ==
  LET fa == a.n \div a.d
      fb == b.n \div b.d
  IN  IF fa # fb THEN fa < fb
      ELSE (a.n - fa * a.d) * b.d < (b.n - fb * b.d) * a.d

\* integer part, truncated toward zero (math.Modf, and float-to-uint conversion)
RTrunc(a) == IF a.n >= 0 THEN a.n \div a.d ELSE 0 - ((0 - a.n) \div a.d)

\* fractional part with the sign of the argument (math.Modf)
RFrac(a) == RSub(a, RInt(RTrunc(a)))

(***************************************************************************)
(* 32-bit words, least significant byte first.  A header word is kept as   *)
(* its four bytes so that byte swapping and uint32 wrap-around are exact.  *)
(***************************************************************************)
I2W(v) == <<v % 256, (v \div 256) % 256, (v \div 65536) % 256,
            (v \div 16777216) % 256>>

W2I(w) == w[1] + 256 * (w[2] + 256 * (w[3] + 256 * w[4]))

WZero == <<0, 0, 0, 0>>

WNorm(d0, d1, d2, d3) ==
  LET c1 == d1 + (d0 \div 256)
      c2 == d2 + (c1 \div 256)
      c3 == d3 + (c2 \div 256)
  IN  <<d0 % 256, c1 % 256, c2 % 256, c3 % 256>>

\* uint32 addition and multiplication, modulo 2^32
WAdd(a, b) == WNorm(a[1] + b[1], a[2] + b[2], a[3] + b[3], a[4] + b[4])

WMul(a, b) ==
  WNorm(a[1] * b[1],
        a[1] * b[2] + a[2] * b[1],
        a[1] * b[3] + a[2] * b[2] + a[3] * b[1],
        a[1] * b[4] + a[2] * b[3] + a[3] * b[2] + a[4] * b[1])

\* w > 65536 on the bytes of w
WGt65536(w) == w[4] > 0 \/ w[3] > 1 \/ (w[3] = 1 /\ (w[2] > 0 \/ w[1] > 0))

\* swapBytes32: reversal of the four bytes of a word
swapBytes32(w) == <<w[4], w[3], w[2], w[1]>>

\* swapBytes64: reversal of the eight bytes of a float64.  The bit pattern
\* of a double is not modelled; the reversal is modelled as an involution on
\* the values that fixes 0.0 (all bytes zero) and moves every other value.
swapBytes64(v) == IF v.n = 0 THEN v ELSE RNeg(RInv(v))

\* uInt32FromBytes / getUint32: little-endian decoding of four file bytes
uInt32FromBytes(b) == <<b[1], b[2], b[3], b[4]>>

(***************************************************************************)
(* Chebyshev interpolation (interp).                                       *)
(***************************************************************************)
maxCheby == 18

\* arrays indexed from 0, as in the source.  Array(f) is f with all its
\* elements evaluated (an array holds values, not expressions).
Array(f) == f @@ <<>>

Arr(n, v) == Array([i \in 0..(n - 1) |-> v])

\* iinfo as initEphemeris leaves it
iinfoInit ==
  [posnCoeff |-> [Arr(maxCheby, RZero) EXCEPT ![0] = ROne, ![1] = RInt(0 - 2)],
   velCoeff |-> [Arr(maxCheby, RZero) EXCEPT ![1] = ROne],
   nPosnAvail |-> 0, nVelAvail |-> 0, twot |-> RZero]

\* posnCoeff[i] = twot*posnCoeff[i-1] - posnCoeff[i-2], for i = from .. ncf-1
RECURSIVE posnRecur(_, _, _, _)
posnRecur(pc, twot, i, ncf) ==
  IF i >= ncf THEN pc
  ELSE posnRecur([pc EXCEPT ![i] = RSub(RMul(twot, pc[i - 1]), pc[i - 2])],
                 twot, i + 1, ncf)

\* velCoeff[i] = twot*velCoeff[i-1] + 2*posnCoeff[i-1] - velCoeff[i-2]
RECURSIVE velRecur(_, _, _, _, _)
velRecur(vc, pc, twot, i, ncf) ==
  IF i >= ncf THEN vc
  ELSE velRecur([vc EXCEPT ![i] = RSub(RAdd(RMul(twot, vc[i - 1]),
                                             RMul(RInt(2), pc[i - 1])),
                                        vc[i - 2])],
                pc, twot, i + 1, ncf)

\* accelCoeffs[i] = 4*velCoeff[i-1] + twot*accelCoeffs[i-1] - accelCoeffs[i-2]
RECURSIVE accRecur(_, _, _, _, _)
accRecur(ac, vc, twot, i, ncf) ==
  IF i >= ncf THEN ac
  ELSE accRecur([ac EXCEPT ![i] = RSub(RAdd(RMul(RInt(4), vc[i - 1]),
                                             RMul(twot, ac[i - 1])),
                                        ac[i - 2])],
                vc, twot, i + 1, ncf)

\* A slice coef = [buf, from, len] is a window on the array buf: element i
\* of the slice is buf[from + i], for i in 0..(len - 1).
sliceAt(coef, i) == coef.buf[coef.from + i]

\* sum over j = from .. ncf-1 of w[j] * coef[base + j]
RECURSIVE dot(_, _, _, _, _)
dot(w, coef, base, j, ncf) ==
  IF j >= ncf THEN RZero
  ELSE RAdd(RMul(w[j], sliceAt(coef, base + j)), dot(w, coef, base, j + 1, ncf))

\* the recurrence cache, reset when tc differs from the argument it holds
withArgumentKeepingCounts(iinfo, tc) ==
  IF tc # iinfo.posnCoeff[1]
  THEN [iinfo EXCEPT !.posnCoeff[1] = tc, !.twot = RAdd(tc, tc)]
  ELSE iinfo

withArgument(iinfo, tc) ==
  IF tc # iinfo.posnCoeff[1]
  THEN [iinfo EXCEPT !.nPosnAvail = 2, !.nVelAvail = 2,
                     !.posnCoeff[1] = tc, !.twot = RAdd(tc, tc)]
  ELSE iinfo

\* the position polynomials, extended to ncf terms when fewer are cached
withPosn(iinfo, ncf) ==
  IF iinfo.nPosnAvail < ncf
  THEN [iinfo EXCEPT !.posnCoeff = posnRecur(@, iinfo.twot, 2, ncf),
                     !.nPosnAvail = ncf]
  ELSE iinfo

\* the velocity polynomials, extended to ncf terms when fewer are cached
withVel(iinfo, ncf) ==
  IF iinfo.nVelAvail < ncf
  THEN [iinfo EXCEPT !.velCoeff = velRecur(@, iinfo.posnCoeff, iinfo.twot, 2, ncf),
                     !.nVelAvail = ncf]
  ELSE iinfo

\* posvel after the position loop: components 0 .. ncm-1
posnPart(iinfo, coef, ncf, ncm, l, posvel) ==
  Array([k \in DOMAIN posvel |->
     IF k < ncm THEN dot(iinfo.posnCoeff, coef, ncf * (k + l * ncm), 0, ncf)
     ELSE posvel[k]])

\* posvel after the velocity loop: components ncm .. 2*ncm-1
velPart(iinfo, coef, ncf, ncm, l, vfac, posvel) ==
  Array([k \in DOMAIN posvel |->
     IF k >= ncm /\ k < 2 * ncm
     THEN RMul(dot(iinfo.velCoeff, coef, ncf * ((k - ncm) + l * ncm), 1, ncf), vfac)
     ELSE posvel[k]])

\* posvel after the acceleration loop: components 2*ncm .. 3*ncm-1
accPartScaledOnce(accelCoeffs, coef, ncf, ncm, l, vfac, posvel) ==
  Array([k \in DOMAIN posvel |->
     IF k >= 2 * ncm /\ k < 3 * ncm
     THEN RMul(dot(accelCoeffs, coef, ncf * ((k - 2 * ncm) + l * ncm), 2, ncf), vfac)
     ELSE posvel[k]])

accPart(accelCoeffs, coef, ncf, ncm, l, vfac, posvel) ==
  Array([k \in DOMAIN posvel |->
     IF k >= 2 * ncm /\ k < 3 * ncm
     THEN RMul(RMul(dot(accelCoeffs, coef, ncf * ((k - 2 * ncm) + l * ncm), 2, ncf),
                    vfac), vfac)
     ELSE posvel[k]])

\* the velocity and acceleration part of interp; pv1 is posvel after the
\* position loop
interpDerivatives(iinfo, coef, ncf, ncm, l, vfac, velocityFlag, pv1) ==
  [iinfo |-> iinfo, panic |-> "",
   posvel |-> IF velocityFlag = 3
              THEN accPart(accRecur(Arr(maxCheby, RZero), iinfo.velCoeff, iinfo.twot,
                                    2, ncf),
                           coef, ncf, ncm, l, vfac,
                           velPart(iinfo, coef, ncf, ncm, l, vfac, pv1))
              ELSE velPart(iinfo, coef, ncf, ncm, l, vfac, pv1)]

\* interp from the position loop on; iinfo holds the position polynomials
interpLoops(iinfo, coef, t, ncf, ncm, na, l, velocityFlag, posvel) ==
  IF ~(ncm = 0 \/ ncf = 0 \/ ncf * ((ncm - 1) + l * ncm) + ncf - 1 < coef.len)
  THEN [iinfo |-> iinfo, posvel |-> posvel, panic |-> "index out of range"]
  ELSE IF velocityFlag <= 1
  THEN [iinfo |-> iinfo, panic |-> "",
        posvel |-> posnPart(iinfo, coef, ncf, ncm, l, posvel)]
  ELSE interpDerivatives(withVel(iinfo, ncf), coef, ncf, ncm, l,
                         RDiv(RInt(na + na), t[2]), velocityFlag,
                         posnPart(iinfo, coef, ncf, ncm, l, posvel))

\* interp once the sub-interval l and the argument tc are known
interpAt(iinfo, coef, t, ncf, ncm, na, velocityFlag, posvel, l, tc) ==
  IF ncf >= maxCheby
  THEN [iinfo |-> iinfo, posvel |-> posvel, panic |-> "ncf must be less than maxCheby"]
  ELSE IF RLt(tc, RInt(0 - 1)) \/ RLt(ROne, tc)
  THEN [iinfo |-> iinfo, posvel |-> posvel, panic |-> "tc must be between -1 and 1"]
  ELSE interpLoops(withPosn(withArgument(iinfo, tc), ncf), coef, t, ncf, ncm, na, l,
                   velocityFlag, posvel)

\* interp with temp = na * t[0]
interpInUnclamped(iinfo, coef, t, ncf, ncm, na, velocityFlag, posvel, temp) ==
  interpAt(iinfo, coef, t, ncf, ncm, na, velocityFlag, posvel, RTrunc(temp),
           RSub(RMul(RInt(2), RFrac(temp)), ROne))

interpIn(iinfo, coef, t, ncf, ncm, na, velocityFlag, posvel, temp) ==
  IF RTrunc(temp) = na
  THEN interpAt(iinfo, coef, t, ncf, ncm, na, velocityFlag, posvel, na - 1, ROne)
  ELSE interpAt(iinfo, coef, t, ncf, ncm, na, velocityFlag, posvel, RTrunc(temp),
                RSub(RMul(RInt(2), RFrac(temp)), ROne))

\* interp: coef is the slice handed in (buf[ipt0-1:]), t = <<t0, t1>>,
\* posvel the destination; the result carries the updated iinfo and posvel,
\* or panic /= "" when the Go code aborts.
interp(iinfo, coef, t, ncf, ncm, na, velocityFlag, posvel) ==
  interpIn(iinfo, coef, t, ncf, ncm, na, velocityFlag, posvel, RMul(RInt(na), t[1]))

(***************************************************************************)
(* Ephemeris files.  A file is described by the values its writer stored   *)
(* and the byte order it stored them in; what a reader sees of a numeric   *)
(* field is derived from the two.                                          *)
(***************************************************************************)
\* number of components of the quantity with 1-based index idx
quantityDimension(idx) == IF idx = 11 THEN 2 ELSE IF idx = 14 THEN 1 ELSE 3

\* coefficients of rows 0..(i-1) of a layout (rows are <<ncf, na>>)
RECURSIVE coeffsBefore(_, _)
coeffsBefore(layout, i) ==
  IF i = 0 THEN 0
  ELSE coeffsBefore(layout, i - 1)
       + layout[i][1] * layout[i][2] * quantityDimension(i - 1)

\* row i (0-based) of the interpolation parameter table of a layout
iptRow(layout, i) ==
  [j \in 0..2 |-> IF j = 0 THEN 3 + coeffsBefore(layout, i) ELSE layout[i + 1][j]]


\* p = [bigEndian, inpop, version, numde, ncon, au, emrat, ephemStart,
\*      ephemStep, nrec, layout, extraNames]
MkFile(p) ==
  LET n == 2 + coeffsBefore(p.layout, 15)
  IN  [bigEndian |-> p.bigEndian, inpop |-> p.inpop, version |-> p.version,
       ephemStart |-> p.ephemStart,
       ephemEnd |-> RAdd(p.ephemStart, RMul(RInt(p.nrec), p.ephemStep)),
       ephemStep |-> p.ephemStep, ncon |-> p.ncon, au |-> p.au, emrat |-> p.emrat,
       numde |-> p.numde,
       ipt |-> [i \in 0..14 |-> iptRow(p.layout, i)],
       nrec |-> p.nrec, recsize |-> 8 * n, extraNames |-> p.extraNames]

\* the value stored as double j (1-based) of coefficient record k of file f:
\* the two epochs of the record, then the coefficients
storedCoef(f, k, j) ==
  IF j = 1 THEN RAdd(f.ephemStart, RMul(RInt(k), f.ephemStep))
  ELSE IF j = 2 THEN RAdd(f.ephemStart, RMul(RInt(k + 1), f.ephemStep))
  ELSE RInt((((k + 2) * (j * j + 3 * j + k)) % 7) - 3)

\* the four bytes a reader finds for a stored uint32
fileWord(f, v) == IF f.bigEndian THEN swapBytes32(I2W(v)) ELSE I2W(v)

\* the eight bytes a reader finds for a stored double, decoded little-endian
fileDouble(f, v) == IF f.bigEndian THEN swapBytes64(v) ELSE v

\* the 40 words of the numeric header after the five doubles and ncon:
\* IPT rows 0..11, then the librations row preceded by one word (NUMDE)
headerWord(f, i) ==
  IF i < 36 THEN fileWord(f, f.ipt[i \div 3][i % 3])
  ELSE IF i = 36 THEN fileWord(f, f.numde)
  ELSE fileWord(f, f.ipt[12][i - 37])

\* the six words of IPT rows 13 and 14, stored after the constant names
tailWord(f, i) == fileWord(f, f.ipt[13 + (i \div 3)][i % 3])

(***************************************************************************)
(* The state assembler (State) and its one-record cache.                   *)
(***************************************************************************)
\* value of ephem.currCacheLoc after initEphemeris: uint32(4294967295),
\* written here as the same word read as a signed quantity
NoRecord == 0 - 1

\* int64((nr+2)*ephem.recsize): the product is formed in uint32
seekOffset(nr, recsize) == W2I(WMul(I2W(nr + 2), I2W(recsize)))

\* size of file f in records of f.recsize bytes: header record, constants
\* record, f.nrec coefficient records
fileRecords(f) == 2 + f.nrec

\* binary.Read(ifile, LittleEndian, buf) at byte offset off, len(buf) = n,
\* fails at end of file, that is when off + 8*n exceeds the size of the
\* file; the comparison is made in whole records
readFails(f, off, n) == (off + 8 * n - 1) \div f.recsize >= fileRecords(f)

\* The coefficient buffer is only ever written as a whole, by one record
\* read followed (or not) by swapBytes64Slice; it is modelled by where its
\* contents came from: cache = [from, swapped], from = NoRecord for the
\* zero-filled buffer of initEphemeris.  bufAt gives element i (0-based).
cacheInit == [from |-> NoRecord, swapped |-> FALSE]

bufAt(f, cache, i) ==
  LET raw == fileDouble(f, storedCoef(f, cache.from, i + 1))
  IN  IF cache.from = NoRecord THEN RZero
      ELSE IF cache.swapped THEN swapBytes64(raw) ELSE raw

\* the record stored at byte offset off
recordAt(f, off) == (off \div f.recsize) - 2

\* record number and fraction for an in-range epoch: <<nr, t0>>
recordAndFractionNoStepBack(ephem, et) ==
  LET blockLoc == RDiv(RSub(et, ephem.ephemStart), ephem.ephemStep)
      nr == RTrunc(blockLoc)
  IN  <<nr, RSub(blockLoc, RInt(nr))>>

recordAndFraction(ephem, et) ==
  LET blockLoc == RDiv(RSub(et, ephem.ephemStart), ephem.ephemStep)
      nr == RTrunc(blockLoc)
      t0 == RSub(blockLoc, RInt(nr))
  IN  IF t0 = RZero /\ nr # 0 THEN <<nr - 1, ROne>> ELSE <<nr, t0>>

\* the record load of State.  env = [file, closed, fault]: the file on disk,
\* whether the descriptor was closed, and the I/O step that the environment
\* fails in this call ("none", "seek" or "read").
loadRecordUntagged(ephem, env, nr) ==
  LET off == seekOffset(nr, ephem.recsize)
  IN  IF nr = ephem.currCacheLoc
      THEN [ephem |-> ephem, err |-> "", seeks |-> <<>>, reads |-> 0]
      ELSE IF env.closed \/ env.fault = "seek"
      THEN [ephem |-> ephem, err |-> "ErrFileSeek", seeks |-> <<off>>, reads |-> 0]
      ELSE IF env.fault = "read" \/ readFails(env.file, off, ephem.ncoeff)
      THEN [ephem |-> ephem, err |-> "ErrFileRead", seeks |-> <<off>>, reads |-> 1]
      ELSE [ephem |-> [ephem EXCEPT !.cache = [from |-> recordAt(env.file, off),
                                              swapped |-> ephem.swapBytes # 0]],
            err |-> "", seeks |-> <<off>>, reads |-> 1]

loadRecordRetrying(ephem, env, nr) ==
  LET off == seekOffset(nr, ephem.recsize)
      tagged == [ephem EXCEPT !.currCacheLoc = nr]
  IN  IF nr = ephem.currCacheLoc
      THEN [ephem |-> ephem, err |-> "", seeks |-> <<>>, reads |-> 0]
      ELSE IF env.closed \/ env.fault = "seek"
      THEN [ephem |-> tagged, err |-> "ErrFileSeek", seeks |-> <<off, off>>, reads |-> 0]
      ELSE IF env.fault = "read" \/ readFails(env.file, off, ephem.ncoeff)
      THEN [ephem |-> tagged, err |-> "ErrFileRead", seeks |-> <<off, off>>, reads |-> 2]
      ELSE [ephem |-> [tagged EXCEPT !.cache = [from |-> recordAt(env.file, off),
                                               swapped |-> ephem.swapBytes # 0]],
            err |-> "", seeks |-> <<off>>, reads |-> 1]

loadRecord(ephem, env, nr) ==
  LET off == seekOffset(nr, ephem.recsize)
      tagged == [ephem EXCEPT !.currCacheLoc = nr]
  IN  IF nr = ephem.currCacheLoc
      THEN [ephem |-> ephem, err |-> "", seeks |-> <<>>, reads |-> 0]
      ELSE IF env.closed \/ env.fault = "seek"
      THEN [ephem |-> tagged, err |-> "ErrFileSeek", seeks |-> <<off>>, reads |-> 0]
      ELSE IF env.fault = "read" \/ readFails(env.file, off, ephem.ncoeff)
      THEN [ephem |-> tagged, err |-> "ErrFileRead", seeks |-> <<off>>, reads |-> 1]
      ELSE [ephem |-> [tagged EXCEPT !.cache = [from |-> recordAt(env.file, off),
                                               swapped |-> ephem.swapBytes # 0]],
            err |-> "", seeks |-> <<off>>, reads |-> 1]

\* ephem.cache as an array of ncoeff doubles
cacheArray(f, ephem) == Array([i \in 0..(ephem.ncoeff - 1) |-> bufAt(f, ephem.cache, i)])

\* buf[from:]
sliceFrom(buf, ncoeff, from) == [buf |-> buf, from |-> from, len |-> ncoeff - from]

\* dest[j] *= aufac for j < n
scale(dest, n, aufac) ==
  Array([j \in DOMAIN dest |-> IF j < n THEN RMul(dest[j], aufac) ELSE dest[j]])

\* The double loop of State runs loop counter idx = 0..59 (nIntervals =
\* 1,2,4,8 outermost, i = 0..14 innermost).  stepRow gives the quantity
\* count and IPT row of an iteration, stepActive tells whether its body runs.
stepRow(ephem, list, recomputePvsun, idx) ==
  LET i == idx % 15
  IN  [nIntervals |-> 2 ^ (idx \div 15), i |-> i,
       quantities |-> IF i = 14 THEN (IF recomputePvsun THEN 3 ELSE 0) ELSE list[i],
       iptr |-> IF i = 14 THEN ephem.ipt[10]
                ELSE IF i < 10 THEN ephem.ipt[i] ELSE ephem.ipt[i + 1]]

stepActive(ephem, list, recomputePvsun, idx) ==
  LET s == stepRow(ephem, list, recomputePvsun, idx)
  IN  s.nIntervals = s.iptr[2] /\ s.quantities # 0

\* the iterations whose body runs, in loop order
activeSteps(ephem, list, recomputePvsun) ==
  SelectSeq([k \in 1..60 |-> k - 1],
            LAMBDA idx : stepActive(ephem, list, recomputePvsun, idx))

\* the destination of iteration i.  st = [iinfo, pv, nut, pvsun, panic]
stepDest(st, i) == IF i < 10 THEN st.pv[i] ELSE IF i = 14 THEN st.pvsun ELSE st.nut

\* what interp returned (r) stored for iteration s, converted from km to AU
\* for the bodies and the Sun
stepStore(ephem, st, s, r) ==
  IF r.panic # "" THEN [st EXCEPT !.iinfo = r.iinfo, !.panic = r.panic]
  ELSE IF s.i < 10
  THEN [st EXCEPT !.iinfo = r.iinfo,
                  !.pv[s.i] = scale(r.posvel, s.quantities * 3, RDiv(ROne, ephem.au))]
  ELSE IF s.i = 14
  THEN [st EXCEPT !.iinfo = r.iinfo,
                  !.pvsun = scale(r.posvel, s.quantities * 3, RDiv(ROne, ephem.au))]
  ELSE [st EXCEPT !.iinfo = r.iinfo, !.nut = r.posvel]

\* the body of the active iteration s
stepBody(ephem, buf, t, st, s) ==
  IF st.panic # "" THEN st
  ELSE IF s.iptr[0] - 1 < 0 \/ s.iptr[0] - 1 > ephem.ncoeff
  THEN [st EXCEPT !.panic = "slice bounds out of range"]
  ELSE stepStore(ephem, st, s,
                 interp(st.iinfo, sliceFrom(buf, ephem.ncoeff, s.iptr[0] - 1), t,
                        s.iptr[1], quantityDimension(s.i + 1), s.nIntervals,
                        s.quantities, stepDest(st, s.i)))

stateStep(ephem, buf, t, list, recomputePvsun, st, idx) ==
  stepBody(ephem, buf, t, st, stepRow(ephem, list, recomputePvsun, idx))

RECURSIVE stateLoop(_, _, _, _, _, _, _, _)
stateLoop(ephem, buf, t, list, recomputePvsun, st, steps, k) ==
  IF k > Len(steps) THEN st
  ELSE stateLoop(ephem, buf, t, list, recomputePvsun,
                 stateStep(ephem, buf, t, list, recomputePvsun, st, steps[k]),
                 steps, k + 1)

\* pv[i][j] -= pvsun[j] for i < 9, j < list[i]*3
subtractSun(pv, list, pvsun) ==
  Array([i \in DOMAIN pv |->
     IF i < 9 THEN Array([j \in DOMAIN pv[i] |->
                      IF j < list[i] * 3 THEN RSub(pv[i][j], pvsun[j]) ELSE pv[i][j]])
     ELSE pv[i]])

\* the epoch check of State
outsideRangeBelowOnly(ephem, et) == RLt(et, ephem.ephemStart)

outsideRange(ephem, et) == RLt(et, ephem.ephemStart) \/ RLt(ephem.ephemEnd, et)

\* State after the loop; ld is what the record load returned, st the loop's
\* result
stateResult(ld, et, list, bary, st) ==
  [ephem |-> [ld.ephem EXCEPT !.pvsunT = et, !.iinfo = st.iinfo, !.pvsun = st.pvsun],
   pv |-> IF bary = 0 THEN subtractSun(st.pv, list, st.pvsun) ELSE st.pv,
   nut |-> st.nut, err |-> "", seeks |-> ld.seeks, reads |-> ld.reads,
   panic |-> st.panic]

\* State after the record load
stateLoaded(ld, env, et, t0, list, pv, nut, bary) ==
  IF ld.err # ""
  THEN [ephem |-> ld.ephem, pv |-> pv, nut |-> nut, err |-> ld.err,
        seeks |-> ld.seeks, reads |-> ld.reads, panic |-> ""]
  ELSE stateResult(ld, et, list, bary,
         stateLoop(ld.ephem, cacheArray(env.file, ld.ephem),
                   <<t0, ld.ephem.ephemStep>>, list, ld.ephem.pvsunT # et,
                   [iinfo |-> ld.ephem.iinfo, pv |-> pv, nut |-> nut,
                    pvsun |-> ld.ephem.pvsun, panic |-> ""],
                   activeSteps(ld.ephem, list, ld.ephem.pvsunT # et), 1))

\* State keeping the record it has once one is loaded
stateInRangeKeepingRecord(ephem, env, et, list, pv, nut, bary, rf) ==
  stateLoaded(loadRecord(ephem, env, IF ephem.currCacheLoc = NoRecord THEN rf[1]
                                     ELSE ephem.currCacheLoc),
              env, et, rf[2], list, pv, nut, bary)

\* State for an epoch in range; rf = <<nr, t0>>
stateInRange(ephem, env, et, list, pv, nut, bary, rf) ==
  stateLoaded(loadRecord(ephem, env, rf[1]), env, et, rf[2], list, pv, nut, bary)

\* State(ephem, et, list, pv, nut, bary)
State(ephem, env, et, list, pv, nut, bary) ==
  IF outsideRange(ephem, et)
  THEN [ephem |-> ephem, pv |-> pv, nut |-> nut, err |-> "ErrOutsideRange",
        seeks |-> <<>>, reads |-> 0, panic |-> ""]
  ELSE stateInRange(ephem, env, et, list, pv, nut, bary, recordAndFraction(ephem, et))

(***************************************************************************)
(* The relative-state resolver (Pleph).                                    *)
(***************************************************************************)
zeroVec(n) == Arr(n, RZero)

\* the request list Pleph builds for body codes ntarg, ncent in 1..13
bodyListMoonAlone(ntarg, ncent, listVal) ==
  LET ks == {ntarg - 1, ncent - 1}
  IN  Array([i \in 0..13 |->
         IF (i <= 9 /\ i \in ks) \/ (i = 2 /\ 12 \in ks) \/ (i = 9 /\ 2 \in ks)
         THEN listVal ELSE 0])

bodyList(ntarg, ncent, listVal) ==
  LET ks == {ntarg - 1, ncent - 1}
  IN  Array([i \in 0..13 |->
         IF (i <= 9 /\ i \in ks) \/ (i = 2 /\ (9 \in ks \/ 12 \in ks)) \/ (i = 9 /\ 2 \in ks)
         THEN listVal ELSE 0])

\* ntarg == c || ncent == c
involvesAsTarget(ntarg, ncent, c) == ntarg = c

involves(ntarg, ncent, c) == ntarg = c \/ ncent = c

\* the body table with the EMB row copied after the Earth / Moon conversion
assembleCopyingConvertedRow(ephem, pv, list, ntarg, ncent) ==
  LET both(c) == ntarg = c \/ ncent = c
      pvA == [pv EXCEPT ![10] = IF both(11) THEN Array([i \in 0..5 |-> ephem.pvsun[i]])
                                ELSE @,
                        ![11] = IF both(12) THEN zeroVec(6) ELSE @]
      earth == Array([i \in 0..5 |->
                  IF list[2] # 0 /\ i < list[2] * 3
                  THEN RSub(pvA[2][i], RDiv(pvA[9][i], RAdd(ROne, ephem.emrat)))
                  ELSE pvA[2][i]])
      moon == Array([i \in 0..5 |->
                 IF list[9] # 0 /\ i < list[9] * 3
                 THEN RAdd(pvA[9][i], earth[i]) ELSE pvA[9][i]])
  IN  IF ntarg * ncent = 30 /\ ntarg + ncent = 13
      THEN [pvA EXCEPT ![2] = zeroVec(6), ![12] = IF both(13) THEN zeroVec(6) ELSE @]
      ELSE [pvA EXCEPT ![2] = earth, ![9] = moon,
                       ![12] = IF both(13) THEN earth ELSE @]

\* the body table after State: Sun, barycentre and EMB rows, then the
\* Earth / Moon conversion
assemble(ephem, pv, list, ntarg, ncent) ==
  LET both(c) == involves(ntarg, ncent, c)
      pvA == [pv EXCEPT ![10] = IF both(11) THEN Array([i \in 0..5 |-> ephem.pvsun[i]])
                                ELSE @,
                        ![11] = IF both(12) THEN zeroVec(6) ELSE @]
      pvB == [pvA EXCEPT ![12] = IF both(13) THEN pvA[2] ELSE @]
      earth == Array([i \in 0..5 |->
                  IF list[2] # 0 /\ i < list[2] * 3
                  THEN RSub(pvB[2][i], RDiv(pvB[9][i], RAdd(ROne, ephem.emrat)))
                  ELSE pvB[2][i]])
      moon == Array([i \in 0..5 |->
                 IF list[9] # 0 /\ i < list[9] * 3
                 THEN RAdd(pvB[9][i], earth[i]) ELSE pvB[9][i]])
  IN  IF ntarg * ncent = 30 /\ ntarg + ncent = 13
      THEN [pvB EXCEPT ![2] = zeroVec(6)]
      ELSE [pvB EXCEPT ![2] = earth, ![9] = moon]

\* the checks Pleph makes before it calls State
sameBodyAfterValidation(ntarg, ncent) == ntarg = ncent /\ ntarg \in 1..13

sameBody(ntarg, ncent) == ntarg = ncent

quantityPresent(ephem, ntarg) == ephem.ipt[ntarg - 3][1] > 0

invalidIndexOffByOne(ntarg, ncent) ==
  ntarg >= 13 \/ ncent >= 13 \/ ntarg < 1 \/ ncent < 1

invalidIndex(ntarg, ncent) == ntarg > 13 \/ ncent > 13 \/ ntarg < 1 \/ ncent < 1

\* rrd[i] = pv[ntarg-1][i] - pv[ncent-1][i] for i < listVal*3
relativeVector(pv, ntarg, ncent, listVal) ==
  Array([i \in 0..5 |-> IF i < listVal * 3 THEN RSub(pv[ntarg - 1][i], pv[ncent - 1][i])
                        ELSE RZero])

\* the request list for a quantity (ntarg in 14..17)
quantityList(ntarg, listVal) ==
  Array([i \in 0..13 |-> IF i = ntarg - 4 THEN listVal ELSE 0])

\* Pleph returning before it calls State
plephEarly(ephem, rrd, err) ==
  [ephem |-> ephem, seeks |-> <<>>, reads |-> 0, panic |-> "", called |-> FALSE,
   list |-> <<>>, rrd |-> rrd, err |-> err]

\* Pleph returning a quantity; qs is what State returned for list
plephQuantity(qs, list) ==
  [ephem |-> qs.ephem, seeks |-> qs.seeks, reads |-> qs.reads, panic |-> qs.panic,
   err |-> qs.err, called |-> TRUE, list |-> list,
   rrd |-> IF qs.err # "" THEN <<>> ELSE qs.nut]

\* Pleph returning a relative state; bs is what State returned
plephBodies(bs, ntarg, ncent, listVal) ==
  [ephem |-> bs.ephem, seeks |-> bs.seeks, reads |-> bs.reads, panic |-> bs.panic,
   err |-> bs.err, called |-> TRUE, list |-> bodyList(ntarg, ncent, listVal),
   rrd |-> IF bs.err # "" \/ bs.panic # "" THEN zeroVec(6)
           ELSE relativeVector(assemble(bs.ephem, bs.pv,
                                        bodyList(ntarg, ncent, listVal), ntarg, ncent),
                               ntarg, ncent, listVal)]

\* Pleph validating the indices before it looks for a quantity
plephValidatingFirst(ephem, env, et, ntarg, ncent, listVal) ==
  IF sameBody(ntarg, ncent) THEN plephEarly(ephem, zeroVec(6), "")
  ELSE IF ntarg \notin 14..17 /\ invalidIndex(ntarg, ncent)
  THEN plephEarly(ephem, <<>>, "ErrInvalidIndex")
  ELSE IF ntarg \in 14..17 /\ (ncent > 13 \/ ncent < 1)
  THEN plephEarly(ephem, <<>>, "ErrInvalidIndex")
  ELSE IF ntarg \in 14..17
  THEN IF quantityPresent(ephem, ntarg)
       THEN plephQuantity(State(ephem, env, et, quantityList(ntarg, listVal),
                                Arr(13, zeroVec(6)), zeroVec(6), 0),
                          quantityList(ntarg, listVal))
       ELSE plephEarly(ephem, <<>>, "ErrQuantityNotInEphemeris")
  ELSE plephBodies(State(ephem, env, et, bodyList(ntarg, ncent, listVal),
                         Arr(13, zeroVec(6)), zeroVec(6), 1),
                   ntarg, ncent, listVal)

\* Pleph with listVal set
pleph(ephem, env, et, ntarg, ncent, listVal) ==
  IF sameBody(ntarg, ncent) THEN plephEarly(ephem, zeroVec(6), "")
  ELSE IF ntarg \in 14..17
  THEN IF quantityPresent(ephem, ntarg)
       THEN plephQuantity(State(ephem, env, et, quantityList(ntarg, listVal),
                                Arr(13, zeroVec(6)), zeroVec(6), 0),
                          quantityList(ntarg, listVal))
       ELSE plephEarly(ephem, <<>>, "ErrQuantityNotInEphemeris")
  ELSE IF invalidIndex(ntarg, ncent) THEN plephEarly(ephem, <<>>, "ErrInvalidIndex")
  ELSE plephBodies(State(ephem, env, et, bodyList(ntarg, ncent, listVal),
                         Arr(13, zeroVec(6)), zeroVec(6), 1),
                   ntarg, ncent, listVal)

\* Pleph(ephem, et, ntarg, ncent, calcVelocity): rrd = <<>> stands for nil,
\* called tells whether State was called and list what list it was given
Pleph(ephem, env, et, ntarg, ncent, calcVelocity) ==
  pleph(ephem, env, et, ntarg, ncent, IF calcVelocity # 0 THEN 2 ELSE 1)

(***************************************************************************)
(* Header decoding (initEphemeris).                                        *)
(***************************************************************************)
emratMin == Rat(8130055, 100000)

emratMax == Rat(813008, 10000)

\* pvsunT: -1e+80, here an epoch far before every epoch asked for
pvsunTInit == RInt(0 - 100000000)

\* the IPT words as first parsed: 40 header words, the rest zero
iptParsed(f) ==
  [i \in 0..14 |-> [j \in 0..2 |->
     IF 3 * i + j < 40 THEN uInt32FromBytes(headerWord(f, 3 * i + j)) ELSE WZero]]

\* librations fix-up: row 12 shifted left by one column
iptFixup(ipt) ==
  [ipt EXCEPT ![12] = [j \in 0..2 |-> IF j < 2 THEN ipt[12][j + 1] ELSE ipt[13][0]]]

\* rows 13 and 14 read from behind the constant names.  The read position
\* follows from the constant count the reader decoded; when that is not the
\* count the writer stored, the bytes found there are not modelled (zero).
iptReadTail(f, ipt, ncon) ==
  [ipt EXCEPT ![13] = [j \in 0..2 |->
                         IF ncon = f.ncon THEN uInt32FromBytes(tailWord(f, j)) ELSE WZero],
              ![14] = [j \in 0..2 |->
                         IF ncon = f.ncon THEN uInt32FromBytes(tailWord(f, 3 + j)) ELSE WZero]]

iptSwap(ipt) == [i \in 0..14 |-> [j \in 0..2 |-> swapBytes32(ipt[i][j])]]

\* cross-check of rows 13 and 14; both rows are zeroed when it fails
iptSane(ipt) ==
  /\ ipt[13][0] = WAdd(ipt[12][0], WMul(WMul(ipt[12][1], ipt[12][2]), I2W(3)))
  /\ ipt[14][0] = WAdd(ipt[13][0], WMul(WMul(ipt[13][1], ipt[13][2]), I2W(3)))

\* the check zeroing row 14 alone
iptCheckedRow14Only(ipt) ==
  IF iptSane(ipt) THEN ipt
  ELSE [i \in 0..14 |-> IF i >= 14 THEN [j \in 0..2 |-> WZero] ELSE ipt[i]]

iptChecked(ipt) ==
  IF iptSane(ipt) THEN ipt
  ELSE [i \in 0..14 |-> IF i >= 13 THEN [j \in 0..2 |-> WZero] ELSE ipt[i]]

\* kernelSize = 4 + sum of 2*ipt[i][1]*ipt[i][2]*quantityDimension(i), in uint32
RECURSIVE kernelSum(_, _)
kernelSum(ipt, i) ==
  IF i = 0 THEN I2W(4)
  ELSE WAdd(kernelSum(ipt, i - 1),
            WMul(WMul(I2W(2), WMul(ipt[i - 1][1], ipt[i - 1][2])),
                 I2W(quantityDimension(i - 1))))

\* initEphemeris(name, nil, nil) on file f, with the I/O step named by fault
\* failing.  opened tells whether os.Open succeeded, closed whether the file
\* was closed again before returning; ephem = <<>> stands for nil.  chain is
\* the set of errors the returned error wraps (what errors.Is finds by
\* unwrapping it): fmt.Errorf with %w wraps the error of the failed library
\* call, and without %w nothing.
initEphemeris(f, fault) ==
  LET fail(msg, chain) ==
        [err |-> msg, chain |-> chain, ephem |-> <<>>, opened |-> TRUE,
         closed |-> FALSE]
      ncon0 == uInt32FromBytes(fileWord(f, f.ncon))
      swap == WGt65536(ncon0)
      dbl(v) == IF swap THEN swapBytes64(fileDouble(f, v)) ELSE fileDouble(f, v)
      ncon == W2I(IF swap THEN swapBytes32(ncon0) ELSE ncon0)
      emrat == dbl(f.emrat)
      tail == f.version >= 430 /\ ncon # 400
      ipt1 == iptFixup(iptParsed(f))
      ipt2 == IF tail THEN iptReadTail(f, ipt1, ncon)
              ELSE [ipt1 EXCEPT ![13][0] = WZero]
      ipt3 == iptChecked(IF swap THEN iptSwap(ipt2) ELSE ipt2)
      kernelSize == W2I(kernelSum(ipt3, 15))
      ncoeff == kernelSize \div 2
  IN  IF fault = "open"
      THEN [err |-> "failed to open ephemeris file", chain |-> {"fs.PathError"},
            ephem |-> <<>>, opened |-> FALSE, closed |-> FALSE]
      ELSE IF fault = "title" THEN fail("fread title failed", {"io.ErrUnexpectedEOF"})
      ELSE IF fault = "seek" THEN fail("fseek failed", {"fs.PathError"})
      ELSE IF fault = "header"
      THEN fail("fread header failed", {"io.ErrUnexpectedEOF"})
      ELSE IF f.version < 0
      THEN fail("atoi de_version failed", {"strconv.NumError", "strconv.ErrSyntax"})
      ELSE IF tail /\ ncon > 400 /\ fault = "seek1314"
      THEN fail("fseek failed after 400 constants", {"fs.PathError"})
      ELSE IF tail /\ fault = "read1314"
      THEN fail("fread ipt[13][0] failed", {"io.ErrUnexpectedEOF"})
      ELSE IF RLt(emratMax, emrat) \/ RLt(emrat, emratMin)
      THEN fail("ephemeris file corrupt: Earth-Moon ratio out of range", {})
      ELSE IF ncon = 400 /\ fault = "seek400"
      THEN fail("fseek to 400th constant name failed", {"fs.PathError"})
      ELSE IF ncon = 400 /\ fault = "read400"
      THEN fail("fread constant name (400+) failed", {"io.ErrUnexpectedEOF"})
      ELSE [err |-> "", chain |-> {}, opened |-> TRUE, closed |-> FALSE,
            ephem |-> [ephemStart |-> dbl(f.ephemStart), ephemEnd |-> dbl(f.ephemEnd),
                       ephemStep |-> dbl(f.ephemStep),
                       ncon |-> IF ncon = 400 THEN ncon + f.extraNames ELSE ncon,
                       au |-> dbl(f.au), emrat |-> emrat,
                       ipt |-> [i \in 0..14 |-> [j \in 0..2 |-> W2I(ipt3[i][j])]],
                       ephemerisVersion |-> f.version,
                       kernelSize |-> kernelSize,
                       recsize |-> W2I(WMul(kernelSum(ipt3, 15), I2W(4))),
                       ncoeff |-> ncoeff, swapBytes |-> IF swap THEN 1 ELSE 0,
                       currCacheLoc |-> NoRecord, pvsun |-> zeroVec(9),
                       pvsunT |-> pvsunTInit, cache |-> cacheInit,
                       iinfo |-> iinfoInit]]

(***************************************************************************)
(* The files, epochs and calls explored.                                   *)
(***************************************************************************)
\* number of coefficient records in a model file
NRec == 2

\* epochs are explored on a grid of EpochGrid points per record
EpochGrid == 2

\* Ephemeris.Close may be called this often
MaxClose == 2

\* rows 0..14 as <<coefficients per component, sub-intervals>>
LayoutFull ==
  <<<<3, 2>>, <<2, 1>>, <<3, 1>>, <<2, 1>>, <<2, 1>>, <<2, 1>>, <<2, 1>>, <<2, 1>>,
    <<2, 1>>, <<3, 2>>, <<3, 1>>, <<2, 2>>, <<2, 1>>, <<2, 1>>, <<3, 1>>>>

\* the four optional quantities with the given row
LayoutWith(row) == [i \in 1..15 |-> IF i >= 12 THEN row ELSE LayoutFull[i]]

BaseParams ==
  [bigEndian |-> FALSE, inpop |-> FALSE, version |-> 440, numde |-> 440,
   ncon |-> 572, au |-> RInt(2), emrat |-> Rat(813006, 10000),
   ephemStart |-> RInt(100), ephemStep |-> RInt(4), nrec |-> NRec,
   layout |-> LayoutFull, extraNames |-> 0]

FileFull == MkFile(BaseParams)

\* optional quantities with an order but no sub-intervals
FileNoSub == MkFile([BaseParams EXCEPT !.layout = LayoutWith(<<2, 0>>)])

\* optional quantities absent
FileAbsent == MkFile([BaseParams EXCEPT !.layout = LayoutWith(<<0, 0>>)])

\* the copy of f in which every numeric field is stored byte-reversed
byteReversed(f) == [f EXCEPT !.bigEndian = ~@]

\* FileFull with another constant count
FileWithNcon(n) == MkFile([BaseParams EXCEPT !.ncon = n])

\* a file whose Earth-Moon mass ratio is off, and one whose title carries no
\* version number
FileBadEmrat == MkFile([BaseParams EXCEPT !.emrat = RInt(80)])

FileNoVersion == MkFile([BaseParams EXCEPT !.version = 0 - 1])

\* epoch number k of the grid of file f: k = 0 is the start, k = LastEpoch
\* the end, k = -1 and k = LastEpoch + 1 lie outside
LastEpoch == NRec * EpochGrid

EpochAt(f, k) == RAdd(f.ephemStart, RMul(Rat(k, EpochGrid), f.ephemStep))

InRange == 0..LastEpoch

OutOfRange == {0 - 1, LastEpoch + 1}

(***************************************************************************)
(* The Ephemeris wrapper.                                                  *)
(***************************************************************************)
VARIABLES file, ephem, ifile, pc, last

vars == <<file, ephem, ifile, pc, last>>

NoCall == [op |-> "none"]

InitOn(files) ==
  /\ file \in files
  /\ ephem = <<>>
  /\ ifile = [opens |-> 0, closes |-> 0]
  /\ pc = "start"
  /\ last = NoCall

\* NewEphemeris(name, loadConstants)
newEphemerisResult(f, loadConstants, fault) ==
  LET r == initEphemeris(f, fault)
      badCount == r.err = "" /\ loadConstants /\ r.ephem.ncon <= 0
      err == IF r.err # "" THEN "initialization failed: " \o r.err
             ELSE IF badCount THEN "initialization failed: invalid number of constants"
             ELSE ""
  IN  [err |-> err, chain |-> r.chain, ephem |-> IF err = "" THEN r.ephem ELSE <<>>,
       opened |-> r.opened, closed |-> r.closed]

NewEphemeris(loadConstants, fault) ==
  /\ pc = "start"
  /\ \E r \in {newEphemerisResult(file, loadConstants, fault)} :
       /\ ephem' = r.ephem
       /\ ifile' = [opens |-> IF r.opened THEN 1 ELSE 0,
                    closes |-> IF r.closed THEN 1 ELSE 0]
       /\ pc' = IF r.err = "" THEN "ready" ELSE "failed"
       /\ last' = [op |-> "NewEphemeris", loadConstants |-> loadConstants,
                   fault |-> fault, err |-> r.err, chain |-> r.chain]
  /\ UNCHANGED file

\* Ephemeris.Close -> closeEphemeris: ifile is never reset, so every call
\* reaches the Close of the descriptor
Close ==
  /\ pc = "ready"
  /\ ifile.closes < MaxClose
  /\ ifile' = [ifile EXCEPT !.closes = @ + 1]
  /\ last' = [op |-> "Close", err |-> IF ifile.closes > 0 THEN "file already closed" ELSE ""]
  /\ UNCHANGED <<file, ephem, pc>>

\* the environment of a call on the handle
Env(fault) == [file |-> file, closed |-> ifile.closes > 0, fault |-> fault]

\* Ephemeris.CalculatePV(et, target, center, calcVelocity), at epoch number k
CalculatePV(k, target, center, calcVelocity, fault) ==
  /\ pc = "ready"
  /\ \E r \in {Pleph(ephem, Env(fault), EpochAt(file, k), target, center,
                      IF calcVelocity THEN 2 ELSE 0)} :
       /\ ephem' = r.ephem
       /\ pc' = IF r.panic # "" THEN "aborted" ELSE pc
       /\ last' = [op |-> "CalculatePV", k |-> k, target |-> target, center |-> center,
                   calcVelocity |-> calcVelocity, fault |-> fault, called |-> r.called,
                   list |-> r.list,
                   err |-> r.err, rrd |-> r.rrd, seeks |-> r.seeks, reads |-> r.reads,
                   panic |-> r.panic]
  /\ UNCHANGED <<file, ifile>>

\* what CalculatePV hands back for the vector Pleph returned
Position(l) == IF l.err # "" THEN zeroVec(3) ELSE [i \in 0..2 |-> l.rrd[i]]

Velocity(l) ==
  IF l.err # "" \/ ~l.calcVelocity THEN zeroVec(3) ELSE [i \in 0..2 |-> l.rrd[3 + i]]

(***************************************************************************)
(* Spec: relative states of bodies on a well-formed file, no I/O faults.   *)
(***************************************************************************)
BodyPairs ==
  {<<3, 10>>, <<10, 3>>, <<1, 12>>, <<3, 11>>, <<11, 3>>, <<13, 10>>}

Init == InitOn({FileFull})

Next ==
  \/ NewEphemeris(FALSE, "none")
  \/ \E k \in InRange, p \in BodyPairs, v \in BOOLEAN :
       CalculatePV(k, p[1], p[2], v, "none")

Spec == Init /\ [][Next]_vars

\* C2: for an in-range epoch, bodies t # c in 1..13 and either velocity
\* flag, the state of t relative to c is the component-wise negation of the
\* state of c relative to t, whatever calls were made before.
C2_Antisymmetric ==
  (last.op = "CalculatePV" /\ last.err = "" /\ last.k \in InRange
     /\ last.target # last.center
     /\ last.target \in 1..13 /\ last.center \in 1..13)
  => LET rev == Pleph(ephem, Env("none"), EpochAt(file, last.k), last.center,
                      last.target, IF last.calcVelocity THEN 2 ELSE 0)
     IN  /\ rev.err = ""
         /\ \A i \in 0..5 : rev.rrd[i] = RNeg(last.rrd[i])

\* the Earth relative to the Sun with velocity, every component non-zero,
\* computed from a record that an earlier call had loaded
C2_Witness ==
  /\ last.op = "CalculatePV" /\ last.err = "" /\ last.calcVelocity
  /\ last.target = 3 /\ last.center = 11 /\ last.reads = 0
  /\ \A i \in 0..5 : last.rrd[i] # RZero

\* C5: among successful calls on one handle, a call whose epoch lies in the
\* resident record does no seek and no read, a call whose epoch lies in
\* another record does exactly one seek and one read (of that record), and
\* the first call after open does exactly one read.
C5_OneLoadPerRecordChange ==
  [][(last'.op = "CalculatePV" /\ last'.called /\ last'.err = "") =>
       LET e == last'.k
           record == IF e = 0 THEN 0 ELSE (e - 1) \div EpochGrid
       IN  /\ ephem.cache.from = record =>
                (last'.seeks = <<>> /\ last'.reads = 0 /\ ephem'.cache = ephem.cache)
           /\ ephem.cache.from # record =>
                (Len(last'.seeks) = 1 /\ last'.reads = 1 /\ ephem'.cache.from = record)
           /\ last.op = "NewEphemeris" => last'.reads = 1]_vars

\* a call served from the resident record, the last one of the file, which
\* is not the record the handle loaded first
C5_Witness ==
  /\ last.op = "CalculatePV" /\ last.err = "" /\ last.called
  /\ last.seeks = <<>> /\ last.reads = 0
  /\ ephem.cache.from = NRec - 1 /\ last.k = LastEpoch

\* C6 as stated: between two consecutive successful calls at in-range
\* epochs e1 and e2 the record is reloaded if and only if
\* floor((e1-start)/step) differs from floor((e2-start)/step).
C6_ReloadIffFloorChanges ==
  [][(/\ last.op = "CalculatePV" /\ last.called /\ last.err = ""
      /\ last'.op = "CalculatePV" /\ last'.called /\ last'.err = "") =>
       (last'.reads = 1 <=> (last.k \div EpochGrid) # (last'.k \div EpochGrid))]_vars

\* C6 amended: between two consecutive successful calls at in-range epochs
\* e1 and e2 the record is reloaded if and only if the record index of e1
\* differs from that of e2, the record index of e being
\* floor((e-start)/step), less one when (e-start)/step is a whole number
\* above zero.
C6_ReloadIffRecordChanges ==
  [][(/\ last.op = "CalculatePV" /\ last.called /\ last.err = ""
      /\ last'.op = "CalculatePV" /\ last'.called /\ last'.err = "") =>
       LET index(e) == IF e % EpochGrid = 0 /\ e > 0 THEN (e \div EpochGrid) - 1
                       ELSE e \div EpochGrid
       IN  last'.reads = 1 <=> index(last.k) # index(last'.k)]_vars

\* a call at the epoch where record 0 ends and record 1 begins, served from
\* record 0 without a reload
C6_Witness ==
  /\ last.op = "CalculatePV" /\ last.err = "" /\ last.called
  /\ last.k = EpochGrid /\ last.reads = 0 /\ ephem.cache.from = 0

(***************************************************************************)
(* SpecFrame: calls that Pleph answers before or without reading the file  *)
(* (same body, invalid codes, absent quantities, epochs out of range), on  *)
(* a handle whose caches a few real calls have filled.                     *)
(***************************************************************************)
FrameFiles == {FileFull, FileNoSub, FileAbsent}

FrameEpochs == OutOfRange \cup {1}

FramePairs ==
  {<<3, 3>>, <<15, 15>>, <<0, 0>>,
   <<0, 3>>, <<3, 14>>, <<18, 3>>,
   <<13, 3>>, <<14, 3>>, <<15, 3>>, <<17, 3>>}

InitFrame == InitOn(FrameFiles)

NextFrame ==
  \/ NewEphemeris(FALSE, "none")
  \/ \E k \in FrameEpochs, p \in FramePairs, v \in BOOLEAN :
       CalculatePV(k, p[1], p[2], v, "none")

SpecFrame == InitFrame /\ [][NextFrame]_vars

\* C1: a call with target = center, at any epoch and for any body code,
\* returns the all-zero vector without error, does no seek and no read, and
\* leaves the record cache, the Sun-epoch cache and the recurrence cache as
\* they were.
C1_SameBodyIsZeroWithoutIO ==
  [][(last'.op = "CalculatePV" /\ last'.target = last'.center) =>
       /\ last'.err = "" /\ last'.rrd = zeroVec(6)
       /\ Position(last') = zeroVec(3) /\ Velocity(last') = zeroVec(3)
       /\ last'.seeks = <<>> /\ last'.reads = 0
       /\ ephem'.cache = ephem.cache /\ ephem'.currCacheLoc = ephem.currCacheLoc
       /\ ephem'.pvsunT = ephem.pvsunT /\ ephem'.pvsun = ephem.pvsun
       /\ ephem'.iinfo = ephem.iinfo
       /\ ephem' = ephem]_vars

\* a same-body call at an epoch out of range, for a code that is no body,
\* on a handle whose caches are filled
C1_Witness ==
  /\ last.op = "CalculatePV" /\ last.target = 15 /\ last.center = 15
  /\ last.k \in OutOfRange /\ last.err = "" /\ last.rrd = zeroVec(6)
  /\ ephem.currCacheLoc # NoRecord /\ ephem.pvsunT # pvsunTInit

\* C3 as stated: every call at an epoch out of range, target in 1..17 and
\* center in 1..13, returns OutOfRange.
C3_OutOfRangeForEveryCode ==
  (last.op = "CalculatePV" /\ last.k \in OutOfRange
     /\ last.target \in 1..17 /\ last.center \in 1..13)
  => last.err = "ErrOutsideRange"

\* C3 amended: a call at an epoch out of range with target # center, target
\* in 1..17 and center in 1..13 returns OutOfRange, without seek or read,
\* when the target is a body (1..13) or a quantity (14..17) whose IPT row
\* has a coefficient count above zero.
C3_OutOfRangeRejected ==
  (last.op = "CalculatePV" /\ last.k \in OutOfRange
     /\ last.target \in 1..17 /\ last.center \in 1..13
     /\ last.target # last.center
     /\ (last.target \in 14..17 => ephem.ipt[last.target - 3][1] > 0))
  => /\ last.err = "ErrOutsideRange"
     /\ last.seeks = <<>> /\ last.reads = 0
     /\ Position(last) = zeroVec(3) /\ Velocity(last) = zeroVec(3)

\* an epoch past the end asked of a handle that holds a record
C3_Witness ==
  /\ last.op = "CalculatePV" /\ last.k = LastEpoch + 1
  /\ last.target = 13 /\ last.center = 3 /\ last.err = "ErrOutsideRange"
  /\ ephem.currCacheLoc # NoRecord

\* C4: a call for a quantity (target 14..17) whose IPT row has sub-interval
\* count 0 returns QuantityUnavailable, never a success.
C4_NoSubIntervalsIsUnavailable ==
  (last.op = "CalculatePV" /\ last.k \in InRange
     /\ last.target \in 14..17 /\ last.target # last.center
     /\ ephem.ipt[last.target - 3][2] = 0)
  => last.err = "ErrQuantityNotInEphemeris"

IOPairs == {<<3, 10>>, <<1, 12>>}

IOFaults == {"none", "seek", "read"}

InitIO == InitOn({FileFull})

NextIO ==
  \/ NewEphemeris(FALSE, "none")
  \/ \E k \in InRange, p \in IOPairs, fault \in IOFaults :
       CalculatePV(k, p[1], p[2], TRUE, fault)

SpecIO == InitIO /\ [][NextIO]_vars

\* C9: when the seek of a record load fails the call returns ErrFileSeek
\* after exactly one seek and no read; when its read fails the call returns
\* ErrFileRead after exactly one seek and one read; CalculatePV hands back
\* that very error.
C9_LoadFailureIsReturnedOnce ==
  [][(last'.op = "CalculatePV" /\ last'.called /\ last'.fault # "none") =>
       LET e == last'.k
           record == IF e = 0 THEN 0 ELSE (e - 1) \div EpochGrid
       IN  record # ephem.currCacheLoc =>
             /\ last'.fault = "seek" =>
                  (last'.err = "ErrFileSeek" /\ Len(last'.seeks) = 1 /\ last'.reads = 0)
             /\ last'.fault = "read" =>
                  (last'.err = "ErrFileRead" /\ Len(last'.seeks) = 1 /\ last'.reads = 1)
             /\ Position(last') = zeroVec(3) /\ Velocity(last') = zeroVec(3)]_vars

\* a failed read of record 1 on a handle that holds record 0
C9_Witness ==
  /\ last.op = "CalculatePV" /\ last.fault = "read" /\ last.err = "ErrFileRead"
  /\ last.seeks = <<seekOffset(1, ephem.recsize)>> /\ last.reads = 1
  /\ ephem.cache.from = 0

(***************************************************************************)
(* SpecOpen: opening files of either byte order, with and without I/O      *)
(* failures during initEphemeris, and closing the handle.                  *)
(***************************************************************************)
OpenCounts == {0, 1, 256, 400, 572, 65536}

OpenFiles ==
  {FileWithNcon(n) : n \in OpenCounts}
    \cup {byteReversed(FileWithNcon(n)) : n \in OpenCounts}
    \cup {FileBadEmrat, FileNoVersion}

OpenFaults ==
  {"none", "open", "title", "seek", "header", "seek1314", "read1314",
   "seek400", "read400"}

InitOpen == InitOn(OpenFiles)

NextOpen ==
  \/ \E loadConstants \in BOOLEAN, fault \in OpenFaults :
       NewEphemeris(loadConstants, fault)
  \/ Close

SpecOpen == InitOpen /\ [][NextOpen]_vars

\* C7: a file that was opened is closed exactly once: it is closed when
\* initEphemeris or NewEphemeris fails after opening it, and the Close of
\* the descriptor is never invoked a second time.
C7_ReleasedExactlyOnce ==
  /\ (pc = "failed" /\ ifile.opens = 1) => ifile.closes = 1
  /\ ifile.closes <= ifile.opens

\* C8: when a file with a constant count in 1..65536 opens, its
\* byte-reversed copy opens too, with the same header values and the same
\* decoded coefficient records; only the swap flag differs.
C8_ByteOrderIsTransparent ==
  (pc = "ready" /\ file.ncon \in 1..65536) =>
    LET copy == byteReversed(file)
        r == initEphemeris(copy, "none")
        env(f) == [file |-> f, closed |-> FALSE, fault |-> "none"]
        record(f, h, nr) == cacheArray(f, loadRecord(h, env(f), nr).ephem)
    IN  /\ r.err = ""
        /\ r.ephem.swapBytes # ephem.swapBytes
        /\ r.ephem.ephemStart = ephem.ephemStart /\ r.ephem.ephemEnd = ephem.ephemEnd
        /\ r.ephem.ephemStep = ephem.ephemStep /\ r.ephem.ncon = ephem.ncon
        /\ r.ephem.au = ephem.au /\ r.ephem.emrat = ephem.emrat
        /\ r.ephem.ipt = ephem.ipt /\ r.ephem.recsize = ephem.recsize
        /\ \A nr \in 0..(NRec - 1) : record(copy, r.ephem, nr) = record(file, ephem, nr)

\* C11: every error NewEphemeris returns for a failed initialization is
\* recognised by errors.Is as ErrInitialization, ErrFileRead or ErrFileSeek,
\* that is, one of the three is in the chain of errors it wraps.
C11_InitErrorsAreClassified ==
  (last.op = "NewEphemeris" /\ last.err # "") =>
    last.chain \cap {"ErrInitialization", "ErrFileRead", "ErrFileSeek"} # {}

(***************************************************************************)
(* SpecGet: the integer getters of an opened handle.                       *)
(***************************************************************************)
JPL_EPHEM_N_CONSTANTS == 24

JPL_EPHEM_IPT_ARRAY == 44

JPL_EPHEM_EPHEMERIS_VERSION == 224

JPL_EPHEM_KERNEL_SIZE == 228

JPL_EPHEM_KERNEL_RECORD_SIZE == 232

JPL_EPHEM_KERNEL_NCOEFF == 236

JPL_EPHEM_KERNEL_SWAP_BYTES == 240

\* GetLong(ephem, value): rval, or panic /= "" when the Go code aborts
GetLong(e, value) ==
  LET tval == value - JPL_EPHEM_IPT_ARRAY
      ok(v) == [rval |-> v, panic |-> ""]
  IN  IF value = JPL_EPHEM_N_CONSTANTS THEN ok(e.ncon)
      ELSE IF value = JPL_EPHEM_EPHEMERIS_VERSION THEN ok(e.ephemerisVersion)
      ELSE IF value = JPL_EPHEM_KERNEL_SIZE THEN ok(e.kernelSize)
      ELSE IF value = JPL_EPHEM_KERNEL_RECORD_SIZE THEN ok(e.recsize)
      ELSE IF value = JPL_EPHEM_KERNEL_NCOEFF THEN ok(e.ncoeff)
      ELSE IF value = JPL_EPHEM_KERNEL_SWAP_BYTES THEN ok(e.swapBytes)
      ELSE IF tval >= 0 /\ tval < 45 THEN ok(e.ipt[tval \div 3][tval % 3])
      ELSE [rval |-> 0 - 1,
            panic |-> "Assertion failed: rval == -1 - Invalid JPL_EPHEM_IPT_ARRAY index"]

\* Ephemeris.GetEphemerisLong(valueType)
GetEphemerisLong(valueType) ==
  /\ pc = "ready"
  /\ \E r \in {GetLong(ephem, valueType)} :
       /\ pc' = IF r.panic # "" THEN "aborted" ELSE pc
       /\ last' = [op |-> "GetEphemerisLong", value |-> valueType, rval |-> r.rval,
                   panic |-> r.panic]
  /\ UNCHANGED <<file, ephem, ifile>>

\* Ephemeris.GetIPTArrayValue(index)
GetIPTArrayValue(index) ==
  /\ pc = "ready"
  /\ \E r \in {IF index < 0 \/ index > 44 THEN [rval |-> 0 - 1, panic |-> ""]
                ELSE GetLong(ephem, JPL_EPHEM_IPT_ARRAY + index)} :
       /\ pc' = IF r.panic # "" THEN "aborted" ELSE pc
       /\ last' = [op |-> "GetIPTArrayValue", index |-> index, rval |-> r.rval,
                   panic |-> r.panic]
  /\ UNCHANGED <<file, ephem, ifile>>

\* the value codes and indices asked for
LongCodes ==
  {0 - 1, 0, 8, 16, 28, 36, 43, 89, 100, 223, 225, 241}
    \cup {JPL_EPHEM_N_CONSTANTS, JPL_EPHEM_EPHEMERIS_VERSION, JPL_EPHEM_KERNEL_SIZE,
          JPL_EPHEM_KERNEL_RECORD_SIZE, JPL_EPHEM_KERNEL_NCOEFF,
          JPL_EPHEM_KERNEL_SWAP_BYTES}
    \cup {JPL_EPHEM_IPT_ARRAY + k : k \in 0..44}

IPTIndices == (0 - 1)..45

GetFiles == {FileFull, FileAbsent, byteReversed(FileFull)}

InitGet == InitOn(GetFiles)

NextGet ==
  \/ NewEphemeris(FALSE, "none")
  \/ \E valueType \in LongCodes : GetEphemerisLong(valueType)
  \/ \E index \in IPTIndices : GetIPTArrayValue(index)

SpecGet == InitGet /\ [][NextGet]_vars

\* C12: GetEphemerisLong returns -1 without aborting for every value code
\* that is neither one of the six integer fields nor JPL_EPHEM_IPT_ARRAY+k
\* with k in 0..44, and returns ipt[k/3][k%3] for JPL_EPHEM_IPT_ARRAY+k.
C12_GetLongInvalidCodeIsMinusOne ==
  last.op = "GetEphemerisLong" =>
    LET k == last.value - JPL_EPHEM_IPT_ARRAY
        named == {JPL_EPHEM_N_CONSTANTS, JPL_EPHEM_EPHEMERIS_VERSION,
                  JPL_EPHEM_KERNEL_SIZE, JPL_EPHEM_KERNEL_RECORD_SIZE,
                  JPL_EPHEM_KERNEL_NCOEFF, JPL_EPHEM_KERNEL_SWAP_BYTES}
    IN  /\ k \in 0..44 => last.panic = "" /\ last.rval = ephem.ipt[k \div 3][k % 3]
        /\ (k \notin 0..44 /\ last.value \notin named) =>
             last.panic = "" /\ last.rval = 0 - 1

(***************************************************************************)
(* SpecInterp: sequences of interp calls on the recurrence cache of an     *)
(* opened handle.                                                          *)
(***************************************************************************)
\* the coefficients handed to interp for ncf coefficients, ncm components and
\* na sub-intervals: a slice of exactly ncf*ncm*na doubles, the first three
\* being 1, 0, 0
interpCoef(ncf, ncm, na) ==
  sliceFrom(Array([i \in 0..(ncf * ncm * na - 1) |->
                     IF i = 0 THEN ROne
                     ELSE IF i < 3 THEN RZero
                     ELSE RInt(((i * i + 3 * i) % 7) - 3)]),
            ncf * ncm * na, 0)

\* interp(&ephem.iinfo, coef, t, ncf, ncm, na, velocityFlag, posvel) with
\* t = {t0, ephem.ephemStep} and posvel nine doubles, all zero
Interp(t0, ncf, ncm, na, velocityFlag) ==
  /\ pc = "ready"
  /\ \E r \in {interp(ephem.iinfo, interpCoef(ncf, ncm, na), <<t0, ephem.ephemStep>>,
                       ncf, ncm, na, velocityFlag, zeroVec(9))} :
       /\ ephem' = [ephem EXCEPT !.iinfo = r.iinfo]
       /\ pc' = IF r.panic # "" THEN "aborted" ELSE pc
       /\ last' = [op |-> "interp", t0 |-> t0, ncf |-> ncf, ncm |-> ncm, na |-> na,
                   velocityFlag |-> velocityFlag, posvel |-> r.posvel,
                   panic |-> r.panic]
  /\ UNCHANGED <<file, ifile>>

\* the calls made: <<t0, ncf, ncm, na, velocityFlag>>
InterpCalls ==
  {<<t0, 3, ncm, na, flag>> :
     t0 \in {Rat(1, 4), Rat(1, 2), Rat(3, 4), ROne}, ncm \in {1, 3}, na \in {1, 2},
     flag \in {1, 2, 3}}
    \cup {<<t0, ncf, 1, 1, flag>> :
            t0 \in {Rat(3, 4)}, ncf \in {2, 17, 18, 19}, flag \in {1, 3}}

InitInterp == InitOn({FileFull})

NextInterp ==
  \/ NewEphemeris(FALSE, "none")
  \/ \E c \in InterpCalls : Interp(c[1], c[2], c[3], c[4], c[5])

SpecInterp == InitInterp /\ [][NextInterp]_vars

\* C13: interp supports every order up to and including 18: it aborts for
\* the order only when the order exceeds 18, and completes for 2..18.
C13_OrderUpTo18Completes ==
  last.op = "interp" =>
    /\ last.ncf \in 2..18 => last.panic = ""
    /\ last.panic = "ncf must be less than maxCheby" => last.ncf > 18

\* The Chebyshev polynomials the comments of interp name, evaluated without
\* the three-term recurrences: T_n(x) by T_2m = 2*T_m^2 - 1 and
\* T_2m+1 = 2*T_m*T_m+1 - x
RECURSIVE chebyshevT(_, _)
chebyshevT(n, x) ==
  IF n = 0 THEN ROne
  ELSE IF n = 1 THEN x
  ELSE IF n % 2 = 0
  THEN RSub(RMul(RInt(2), RMul(chebyshevT(n \div 2, x), chebyshevT(n \div 2, x))), ROne)
  ELSE RSub(RMul(RInt(2), RMul(chebyshevT(n \div 2, x), chebyshevT(n \div 2 + 1, x))), x)

\* (+-1)^n for x = +-1
signPower(x, n) == IF n % 2 = 0 THEN ROne ELSE x

\* T'_n(x) = n*(T_n-1 - x*T_n)/(1 - x^2), and (+-1)^(n+1)*n^2 at x = +-1
chebyshevDT(n, x) ==
  IF n = 0 THEN RZero
  ELSE IF RMul(x, x) = ROne THEN RMul(signPower(x, n + 1), RInt(n * n))
  ELSE RDiv(RMul(RInt(n), RSub(chebyshevT(n - 1, x), RMul(x, chebyshevT(n, x)))),
            RSub(ROne, RMul(x, x)))

\* T''_n(x) = (x*T'_n - n^2*T_n)/(1 - x^2), and (+-1)^n*n^2*(n^2-1)/3 at +-1
chebyshevDDT(n, x) ==
  IF RMul(x, x) = ROne
  THEN RMul(signPower(x, n), RInt((n * n * (n * n - 1)) \div 3))
  ELSE RDiv(RSub(RMul(x, chebyshevDT(n, x)), RMul(RInt(n * n), chebyshevT(n, x))),
            RSub(ROne, RMul(x, x)))

\* derivative q (0, 1, 2) of T_n at x
chebyshev(q, n, x) ==
  IF q = 0 THEN chebyshevT(n, x)
  ELSE IF q = 1 THEN chebyshevDT(n, x) ELSE chebyshevDDT(n, x)

\* sum over j = from .. ncf-1 of the q-th derivative of T_j(tc) times
\* coefficient j of the block starting at base
RECURSIVE chebyshevSum(_, _, _, _, _, _)
chebyshevSum(q, tc, coef, base, j, ncf) ==
  IF j >= ncf THEN RZero
  ELSE RAdd(RMul(chebyshev(q, j, tc), sliceAt(coef, base + j)),
            chebyshevSum(q, tc, coef, base, j + 1, ncf))

\* C14: the outputs of a completed interp call equal the reference
\* evaluation: position i is the sum of T_j(tc)*coef_ij over j < ncf,
\* velocity i the sum of T'_j(tc)*coef_ij over 1 <= j < ncf times
\* 2*na/intervalLength, acceleration i (flag 3) the sum of T''_j(tc)*coef_ij
\* over 2 <= j < ncf times that factor squared; coefficients 1, 0, 0 give
\* position exactly 1 at fraction 0.5.
C14_InterpEqualsReference ==
  (last.op = "interp" /\ last.panic = "") =>
    LET temp == RMul(RInt(last.na), last.t0)
        l == IF last.t0 = ROne THEN last.na - 1 ELSE RTrunc(temp)
        tc == IF last.t0 = ROne THEN ROne
              ELSE RSub(RMul(RInt(2), RSub(temp, RInt(RTrunc(temp)))), ROne)
        coef == interpCoef(last.ncf, last.ncm, last.na)
        fac == RDiv(RInt(2 * last.na), ephem.ephemStep)
        sum(q, i) == chebyshevSum(q, tc, coef, last.ncf * (i + l * last.ncm), q, last.ncf)
    IN  /\ \A i \in 0..(last.ncm - 1) :
             /\ last.posvel[i] = sum(0, i)
             /\ last.velocityFlag >= 2 =>
                  last.posvel[last.ncm + i] = RMul(sum(1, i), fac)
             /\ last.velocityFlag = 3 =>
                  last.posvel[2 * last.ncm + i] = RMul(sum(2, i), RMul(fac, fac))
        /\ (last.t0 = Rat(1, 2) /\ last.ncf = 3 /\ last.ncm = 1 /\ last.na = 1) =>
             last.posvel[0] = ROne

\* an order-17 call with accelerations completed, and the acceleration is
\* not zero
C14_Witness ==
  /\ last.op = "interp" /\ last.panic = ""
  /\ last.ncf = 17 /\ last.velocityFlag = 3
  /\ last.posvel[2] # RZero /\ last.posvel[1] # RZero

(***************************************************************************)
(* SpecState: State called on the data of an opened handle, at epochs      *)
(* inside and outside the range of the file.                               *)
(***************************************************************************)
\* State(ephem, et, list, &pv, nut, bary) at epoch number k, pv and nut zero
StateCall(k, list, bary) ==
  /\ pc = "ready"
  /\ \E r \in {State(ephem, Env("none"), EpochAt(file, k), list, Arr(13, zeroVec(6)),
                      zeroVec(6), bary)} :
       /\ ephem' = r.ephem
       /\ pc' = IF r.panic # "" THEN "aborted" ELSE pc
       /\ last' = [op |-> "State", k |-> k, list |-> list, bary |-> bary,
                   err |-> r.err, pv |-> r.pv, nut |-> r.nut, seeks |-> r.seeks,
                   reads |-> r.reads, panic |-> r.panic]
  /\ UNCHANGED <<file, ifile>>

\* the request lists: Mercury with velocity and the Earth-Moon barycenter;
\* Venus and Mars with velocity; the geocentric Moon and the nutations
StateLists ==
  {Array([i \in 0..13 |-> IF i = 0 THEN 2 ELSE IF i = 2 THEN 1 ELSE 0]),
   Array([i \in 0..13 |-> IF i = 1 THEN 1 ELSE IF i = 3 THEN 2 ELSE 0]),
   Array([i \in 0..13 |-> IF i = 9 THEN 2 ELSE IF i = 10 THEN 1 ELSE 0])}

StateEpochs == InRange \cup OutOfRange

InitState == InitOn({FileFull})

NextState ==
  \/ NewEphemeris(FALSE, "none")
  \/ \E k \in StateEpochs, list \in StateLists, bary \in {0, 1} :
       StateCall(k, list, bary)

SpecState == InitState /\ [][NextState]_vars

\* C15: with bary = 0 the requested rows 0..8 of pv are barycentric (what
\* interp gives for the row, in AU), with bary # 0 they are heliocentric
\* (the Sun's barycentric vector subtracted from each requested component).
C15_BaryFlagAsDocumented ==
  (last.op = "State" /\ last.err = "" /\ last.panic = "") =>
    LET t0 == recordAndFraction(ephem, EpochAt(file, last.k))[2]
        buf == cacheArray(file, ephem)
        ssb(i) == interp(iinfoInit, sliceFrom(buf, ephem.ncoeff, ephem.ipt[i][0] - 1),
                         <<t0, ephem.ephemStep>>, ephem.ipt[i][1], 3, ephem.ipt[i][2],
                         last.list[i], zeroVec(6)).posvel
    IN  \A i \in 0..8 : \A j \in 0..(last.list[i] * 3 - 1) :
          last.pv[i][j] = IF last.bary = 0 THEN RDiv(ssb(i)[j], ephem.au)
                          ELSE RSub(RDiv(ssb(i)[j], ephem.au), ephem.pvsun[j])

\* C16: State succeeds at epoch = start and at epoch = end, returns
\* ErrOutsideRange exactly for the epochs before the start or after the end,
\* and a call so rejected seeks and reads nothing and leaves the record
\* buffer, its tag, the Sun vector, the Sun epoch and the recurrence cache
\* as they were.
C16_RangeCheckedBeforeAnything ==
  [][last'.op = "State" =>
       LET et == EpochAt(file, last'.k)
       IN  /\ last'.err = "ErrOutsideRange" <=>
                (RLt(et, file.ephemStart) \/ RLt(file.ephemEnd, et))
           /\ (et = file.ephemStart \/ et = file.ephemEnd) =>
                (last'.err = "" /\ last'.panic = "")
           /\ last'.err = "ErrOutsideRange" =>
                (last'.seeks = <<>> /\ last'.reads = 0 /\ ephem' = ephem)]_vars

\* an epoch after the end was rejected while a record was resident and the
\* Sun vector computed
C16_Witness ==
  /\ last.op = "State" /\ last.err = "ErrOutsideRange"
  /\ RLt(file.ephemEnd, EpochAt(file, last.k))
  /\ ephem.currCacheLoc # NoRecord /\ ephem.pvsunT # pvsunTInit

\* C17: for an in-range epoch with x = (epoch - start)/step, State uses
\* record floor(x) with fraction x - floor(x), except that for a positive
\* integer x it uses record x - 1 with fraction 1; so the fraction is in
\* [0,1], it is 0 only at epoch = start, and the record is one of the
\* records 0 .. N-1 of the file, N = (end - start)/step.
C17_RecordAndFractionOfEpoch ==
  (last.op = "State" /\ last.k \in InRange) =>
    LET et == EpochAt(file, last.k)
        x == RDiv(RSub(et, file.ephemStart), file.ephemStep)
        whole == RFrac(x) = RZero /\ RLt(RZero, x)
        record == IF whole THEN RTrunc(x) - 1 ELSE RTrunc(x)
        fraction == IF whole THEN ROne ELSE RSub(x, RInt(RTrunc(x)))
        rf == recordAndFraction(ephem, et)
    IN  /\ last.err = "" /\ last.panic = ""
        /\ ephem.currCacheLoc = record /\ ephem.cache.from = record
        /\ rf = <<record, fraction>>
        /\ ~RLt(rf[2], RZero) /\ ~RLt(ROne, rf[2])
        /\ rf[2] = RZero => et = file.ephemStart
        /\ record \in 0..(file.nrec - 1)
        /\ last.seeks # <<>> => last.seeks = <<(record + 2) * ephem.recsize>>

\* State was called at the end of the file and at a record boundary inside
\* it: the record before the boundary is resident
C17_Witness ==
  /\ last.op = "State" /\ last.k \in InRange /\ last.k > 0
  /\ last.k % EpochGrid = 0
  /\ ephem.currCacheLoc = (last.k \div EpochGrid) - 1
  /\ last.seeks # <<>>

(***************************************************************************)
(* SpecBig: a file whose last coefficient records lie at byte offsets of   *)
(* 2^32 and more.                                                          *)
(***************************************************************************)
\* FileFull with 4436952 records of 968 bytes: (k+2)*968 >= 2^32 from
\* record k = 4436948 on
FileBig == MkFile([BaseParams EXCEPT !.nrec = 4436952])

\* the first records of the file and its last four
BigRecords == {0, 1} \cup {FileBig.nrec - d : d \in 1..4}

\* the epoch numbers inside the records of BigRecords
BigEpochs == {EpochGrid * r + j : r \in BigRecords, j \in 1..EpochGrid}

InitBig == InitOn({FileBig})

NextBig ==
  \/ NewEphemeris(FALSE, "none")
  \/ \E k \in BigEpochs, p \in IOPairs, v \in BOOLEAN :
       CalculatePV(k, p[1], p[2], v, "none")

SpecBig == InitBig /\ [][NextBig]_vars

\* C18: a record load for record k seeks to the exact product
\* (k+2)*recsize, also when the product is 2^32 or more, and makes one read
\* of the record.
C18_SeekOffsetIsExactProduct ==
  (last.op = "CalculatePV" /\ last.seeks # <<>>) =>
    /\ Len(last.seeks) = 1 /\ last.reads = 1
    /\ last.seeks[1] % ephem.recsize = 0
    /\ last.seeks[1] \div ephem.recsize = ephem.currCacheLoc + 2

(***************************************************************************)
(* SpecSub: interp over the sub-interval counts and fractions of [0,1].    *)
(***************************************************************************)
SubFractions ==
  {RZero, Rat(1, 16), Rat(1, 8), Rat(3, 16), Rat(1, 4), Rat(1, 2), Rat(3, 4),
   Rat(15, 16), ROne}

InitSub == InitOn({FileFull})

NextSub ==
  \/ NewEphemeris(FALSE, "none")
  \/ \E t0 \in SubFractions, ncm \in {1, 3}, na \in {1, 2, 4, 8}, flag \in {1, 2} :
       Interp(t0, 3, ncm, na, flag)

SpecSub == InitSub /\ [][NextSub]_vars

\* C19: for a fraction in [0,1] and na in {1,2,4,8}, interp uses
\* sub-interval l = floor(na*fraction), na - 1 at fraction 1, and
\* tc = 2*frac(na*fraction) - 1, 1 at fraction 1; tc lies in [-1,1] and the
\* call does not abort; every coefficient read lies in the ncf*ncm*na
\* coefficients of the quantity (the slice handed in has exactly that
\* length, and the positions are those of block l).
C19_SubIntervalAndArgument ==
  last.op = "interp" =>
    LET x == RMul(RInt(last.na), last.t0)
        l == IF last.t0 = ROne THEN last.na - 1 ELSE RTrunc(x)
        tc == IF last.t0 = ROne THEN ROne
              ELSE RSub(RMul(RInt(2), RSub(x, RInt(RTrunc(x)))), ROne)
        coef == interpCoef(last.ncf, last.ncm, last.na)
    IN  /\ last.panic = ""
        /\ ~RLt(tc, RInt(0 - 1)) /\ ~RLt(ROne, tc)
        /\ ephem.iinfo.posnCoeff[1] = tc
        /\ l \in 0..(last.na - 1)
        /\ \A i \in 0..(last.ncm - 1) :
             last.posvel[i]
               = chebyshevSum(0, tc, coef, last.ncf * (i + l * last.ncm), 0, last.ncf)

\* a call at fraction 1 with eight sub-intervals and three components
\* completed in the last sub-interval
C19_Witness ==
  /\ last.op = "interp" /\ last.panic = ""
  /\ last.t0 = ROne /\ last.na = 8 /\ last.ncm = 3
  /\ ephem.iinfo.posnCoeff[1] = ROne

\* C20: after a completed interp call of order below 18 with argument tc,
\* posnCoeff[j] = T_j(tc) for every j < nPosnAvail and velCoeff[j] = T'_j(tc)
\* for every j < nVelAvail; and a call whose tc is that of the call before
\* it does not reset the two counts (they do not decrease).
C20_RecurrenceCacheCoherent ==
  [][(last'.op = "interp" /\ last'.panic = "" /\ last'.ncf < 18) =>
       LET tcOf(c) == IF c.t0 = ROne THEN ROne
                      ELSE RSub(RMul(RInt(2), RFrac(RMul(RInt(c.na), c.t0))), ROne)
           tc == tcOf(last')
           ii == ephem'.iinfo
       IN  /\ \A j \in 0..(ii.nPosnAvail - 1) : ii.posnCoeff[j] = chebyshevT(j, tc)
           /\ \A j \in 0..(ii.nVelAvail - 1) : ii.velCoeff[j] = chebyshevDT(j, tc)
           /\ ii.nPosnAvail >= 2 /\ ii.nVelAvail >= 2
           /\ (last.op = "interp" /\ tcOf(last) = tc) =>
                /\ ii.nPosnAvail >= ephem.iinfo.nPosnAvail
                /\ ii.nVelAvail >= ephem.iinfo.nVelAvail]_vars

\* an order-3 call found the seventeen terms of an earlier call with the
\* same argument and left them valid
C20_Witness ==
  /\ last.op = "interp" /\ last.panic = "" /\ last.ncf = 3
  /\ ephem.iinfo.nPosnAvail = 17 /\ ephem.iinfo.nVelAvail = 17

\* C21: in any sequence of calls, after a State call that succeeded at
\* epoch e the stored Sun epoch is e and the stored Sun vector is the Sun's
\* position, velocity and acceleration interpolated at e from the record of
\* the file that contains e, whatever was requested.
C21_SunVectorFollowsEpoch ==
  (last.op = "CalculatePV" /\ last.called /\ last.err = "") =>
    LET et == EpochAt(file, last.k)
        rf == recordAndFraction(ephem, et)
        record == cacheArray(file, [ephem EXCEPT !.cache =
                                      [from |-> rf[1], swapped |-> ephem.swapBytes # 0]])
        row == ephem.ipt[10]
        sun == interp(iinfoInit, sliceFrom(record, ephem.ncoeff, row[0] - 1),
                      <<rf[2], ephem.ephemStep>>, row[1], 3, row[2], 3,
                      zeroVec(9)).posvel
    IN  /\ ephem.pvsunT = et
        /\ \A j \in 0..8 : ephem.pvsun[j] = RDiv(sun[j], ephem.au)

\* C27: between calls, when the tag currCacheLoc names record k the
\* coefficient buffer holds the decoded contents of record k of the file;
\* so after a load of record k that failed with ErrFileSeek or ErrFileRead
\* the tag does not name k, and the next call for record k loads again.
C27_TagNamesResidentRecord ==
  (pc = "ready" /\ ephem.currCacheLoc # NoRecord) =>
    /\ ephem.cache.from = ephem.currCacheLoc
    /\ ephem.cache.swapped = (ephem.swapBytes # 0)

(***************************************************************************)
(* SpecPairs: relative states among Mercury, Earth, Moon, Sun, the         *)
(* barycentre and the Earth-Moon barycentre.                               *)
(***************************************************************************)
PairBodies == {1, 3, 10, 11, 12, 13}

\* one epoch inside the first record and one inside the last
PairEpochs == {1, LastEpoch - 1}

InitPairs == InitOn({FileFull})

NextPairs ==
  \/ NewEphemeris(FALSE, "none")
  \/ \E k \in PairEpochs, t \in PairBodies :
       \E c \in PairBodies \ {t} : CalculatePV(k, t, c, TRUE, "none")

SpecPairs == InitPairs /\ [][NextPairs]_vars

QuantityTargets == 14..17

QuantityCenters == {0, 3, 14}

QuantityEpochs == {1, LastEpoch - 1}

InitQuantity == InitOn({FileFull})

NextQuantity ==
  \/ NewEphemeris(FALSE, "none")
  \/ \E k \in QuantityEpochs, t \in QuantityTargets, c \in QuantityCenters, v \in BOOLEAN :
       CalculatePV(k, t, c, v, "none")

SpecQuantity == InitQuantity /\ [][NextQuantity]_vars

\* C23: in State, list entry 10 is interpolated from IPT row 11 with 2
\* components (nutations), entry 11 from row 12 with 3 components
\* (librations), entry 12 from row 14 with 1 component (TT-TDB) and entry 13
\* from row 13 with 3 components (lunar mantle rates).
C23_MaskEntriesAsDocumented ==
  (last.op = "CalculatePV" /\ last.called /\ last.err = "" /\ last.panic = ""
   /\ last.target \in 14..17) =>
    \A i \in 10..13 : last.list[i] # 0 =>
      LET rowOf == IF i = 10 THEN 11 ELSE IF i = 11 THEN 12 ELSE IF i = 12 THEN 14 ELSE 13
          dimOf == IF i = 10 THEN 2 ELSE IF i = 12 THEN 1 ELSE 3
          rf == recordAndFraction(ephem, EpochAt(file, last.k))
          row == ephem.ipt[rowOf]
      IN  last.rrd = interp(iinfoInit,
                            sliceFrom(cacheArray(file, ephem), ephem.ncoeff, row[0] - 1),
                            <<rf[2], ephem.ephemStep>>, row[1], dimOf, row[2],
                            last.list[i], zeroVec(6)).posvel

\* C24: with M the geocentric Moon and B the Earth-Moon barycentre as
\* interpolated (rows 9 and 2, in AU), the Moon relative to the Earth is M
\* and the Earth relative to the Moon -M; in every other pair the Earth
\* stands for E = B - M/(1+emrat), the Moon for M + E and code 13 for B, so
\* the Earth relative to code 13 is -M/(1+emrat) and the Moon relative to
\* code 13 is M*emrat/(1+emrat).
C24_EarthMoonReconciled ==
  (last.op = "CalculatePV" /\ last.called /\ last.err = "" /\ last.panic = ""
   /\ {last.target, last.center} \subseteq {3, 10, 12, 13}) =>
    LET rf == recordAndFraction(ephem, EpochAt(file, last.k))
        buf == cacheArray(file, ephem)
        body(r) == interp(iinfoInit, sliceFrom(buf, ephem.ncoeff, ephem.ipt[r][0] - 1),
                          <<rf[2], ephem.ephemStep>>, ephem.ipt[r][1], 3,
                          ephem.ipt[r][2], 2, zeroVec(6)).posvel
        B == [j \in 0..5 |-> RDiv(body(2)[j], ephem.au)]
        M == [j \in 0..5 |-> RDiv(body(9)[j], ephem.au)]
        onePlus == RAdd(ROne, ephem.emrat)
        E == [j \in 0..5 |-> RSub(B[j], RDiv(M[j], onePlus))]
        at(c) == IF c = 3 THEN E
                 ELSE IF c = 10 THEN [j \in 0..5 |-> RAdd(M[j], E[j])]
                 ELSE IF c = 13 THEN B ELSE [j \in 0..5 |-> RZero]
        t == last.target
        c == last.center
    IN  \A j \in 0..5 :
          /\ (t = 10 /\ c = 3) => last.rrd[j] = M[j]
          /\ (t = 3 /\ c = 10) => last.rrd[j] = RNeg(M[j])
          /\ {t, c} # {3, 10} => last.rrd[j] = RSub(at(t)[j], at(c)[j])
          /\ (t = 3 /\ c = 13) => last.rrd[j] = RNeg(RDiv(M[j], onePlus))
          /\ (t = 10 /\ c = 13) => last.rrd[j] = RDiv(RMul(M[j], ephem.emrat), onePlus)

\* the Earth was asked for relative to the Earth-Moon barycentre and does
\* not coincide with it
C24_Witness ==
  /\ last.op = "CalculatePV" /\ last.called /\ last.err = ""
  /\ last.target = 3 /\ last.center = 13
  /\ last.rrd[0] # RZero

(***************************************************************************)
(* SpecTail: files that differ in IPT rows 13 and 14 and in what tells the *)
(* reader to look for them.                                                *)
(***************************************************************************)
\* rows 13 and 14 absent, as in the files older than DE430
LayoutOld == [i \in 1..15 |-> IF i >= 14 THEN <<0, 0>> ELSE LayoutFull[i]]

FileOld == MkFile([BaseParams EXCEPT !.version = 405, !.numde = 405, !.layout = LayoutOld])

\* FileFull but for the version in its title
FileOldTitle == MkFile([BaseParams EXCEPT !.version = 429])

\* FileFull with a row 14, or a row 13, whose offset does not follow from the
\* row before it
FileBadRow14 == [FileFull EXCEPT !.ipt[14][0] = @ + 1]

FileBadRow13 == [FileFull EXCEPT !.ipt[13][0] = @ + 2, !.ipt[14][0] = @ + 2]

\* a file without rows 13 and 14 whose nutations row gives 65536
\* coefficients per component and 65536 sub-intervals
FileHugeRow ==
  [MkFile([BaseParams EXCEPT !.layout = LayoutOld])
     EXCEPT !.ipt[11][1] = 65536, !.ipt[11][2] = 65536]

TailFiles ==
  {FileFull, byteReversed(FileFull), FileOld, FileOldTitle, FileWithNcon(400),
   FileBadRow14, byteReversed(FileBadRow14), FileBadRow13, FileHugeRow}

InitTail == InitOn(TailFiles)

NextTail ==
  \/ NewEphemeris(FALSE, "none")
  \/ \E k \in QuantityEpochs, t \in {16, 17}, c \in QuantityCenters, v \in BOOLEAN :
       CalculatePV(k, t, c, v, "none")

SpecTail == InitTail /\ [][NextTail]_vars

\* the two offset cross-checks on a table of numbers
offsetsFollow(ipt) ==
  /\ ipt[13][0] = ipt[12][0] + 3 * ipt[12][1] * ipt[12][2]
  /\ ipt[14][0] = ipt[13][0] + 3 * ipt[13][1] * ipt[13][2]

rowsZero(ipt) == \A i \in 13..14 : \A j \in 0..2 : ipt[i][j] = 0

\* C25: an open without I/O failure succeeds whatever rows 13 and 14 of the
\* file are; after it rows 0..12 are those of the file, and rows 13 and 14
\* either satisfy both offset cross-checks or are all zero; they are all
\* zero when the version is below 430 or the constant count is 400, and then
\* targets 16 and 17 are answered with ErrQuantityNotInEphemeris.
C25_OptionalRowsCheckedOrZero ==
  /\ (last.op = "NewEphemeris" /\ last.fault = "none") => (last.err = "" /\ pc = "ready")
  /\ pc = "ready" =>
       /\ \A i \in 0..12 : \A j \in 0..2 : ephem.ipt[i][j] = file.ipt[i][j]
       /\ offsetsFollow(ephem.ipt) \/ rowsZero(ephem.ipt)
       /\ ~offsetsFollow(file.ipt) => rowsZero(ephem.ipt)
       /\ (file.version < 430 \/ file.ncon = 400) =>
            /\ rowsZero(ephem.ipt)
            /\ (last.op = "CalculatePV" /\ last.target \in {16, 17}) =>
                 (last.err = "ErrQuantityNotInEphemeris" /\ ~last.called)

\* a file with a row 13 and a row 14 whose offset is off was opened, and
\* TT-TDB was then asked for and refused
C25_Witness ==
  /\ pc = "ready" /\ file = FileBadRow14
  /\ file.ipt[13][1] # 0 /\ rowsZero(ephem.ipt)
  /\ last.op = "CalculatePV" /\ last.target = 17
  /\ last.err = "ErrQuantityNotInEphemeris"

\* a * b, or cap when the product exceeds cap (a, b >= 0)
productUpTo(a, b, cap) == IF a = 0 \/ b = 0 THEN 0 ELSE IF a > cap \div b THEN cap ELSE a * b

\* 4 + the sum over rows 0..(i-1) of 2*order*sub-intervals*dimension, or cap
\* when it exceeds cap
RECURSIVE kernelSizeUpTo(_, _, _)
kernelSizeUpTo(ipt, i, cap) ==
  IF i = 0 THEN 4
  ELSE LET rest == kernelSizeUpTo(ipt, i - 1, cap)
           term == productUpTo(2 * quantityDimension(i - 1),
                               productUpTo(ipt[i - 1][1], ipt[i - 1][2], cap), cap)
       IN  IF rest > cap - term THEN cap ELSE rest + term

\* C26: after a successful open kernelSize is 4 plus the sum over the 15
\* IPT rows of 2*order*sub-intervals*dimension (dimension 3, but 2 for row
\* 11 and 1 for row 14), it is even, recsize = 4*kernelSize = 8*ncoeff, and
\* a record read, which fills the ncoeff doubles of the buffer, takes recsize
\* bytes.  (The sum is formed exactly up to 2^28, above every kernelSize
\* met here.)
C26_RecordSizeFromTable ==
  pc = "ready" =>
    /\ ephem.kernelSize < 2 ^ 28
    /\ ephem.kernelSize = kernelSizeUpTo(ephem.ipt, 15, 2 ^ 28)
    /\ ephem.kernelSize % 2 = 0
    /\ ephem.recsize = 4 * ephem.kernelSize
    /\ ephem.recsize = 8 * ephem.ncoeff
    /\ (last.op = "CalculatePV" /\ last.reads > 0) =>
         8 * Cardinality(DOMAIN cacheArray(file, ephem)) = ephem.recsize

(***************************************************************************)
(* SpecHistory: sequences of calls on one handle, without I/O faults, that *)
(* mix epochs of both records with refused calls.                          *)
(***************************************************************************)
HistoryFiles == {FileFull, FileOld}

HistoryEpochs == {0 - 1, 1, LastEpoch - 1}

\* Earth from the Sun, Moon from the Earth-Moon barycentre, TT-TDB with an
\* invalid center, and an invalid target
HistoryPairs == {<<3, 11>>, <<10, 13>>, <<17, 0>>, <<0, 3>>}

InitHistory == InitOn(HistoryFiles)

NextHistory ==
  \/ NewEphemeris(FALSE, "none")
  \/ \E k \in HistoryEpochs, p \in HistoryPairs, v \in BOOLEAN :
       CalculatePV(k, p[1], p[2], v, "none")

SpecHistory == InitHistory /\ [][NextHistory]_vars

\* C28: on a handle whose seeks and reads do not fail, what a call returns
\* (vector and error) after any sequence of earlier calls, refused ones
\* included, is what the same call returns on a freshly opened handle.
C28_ResultIndependentOfHistory ==
  (last.op = "CalculatePV" /\ pc = "ready") =>
    LET fresh == initEphemeris(file, "none").ephem
        r == Pleph(fresh, Env("none"), EpochAt(file, last.k), last.target, last.center,
                   IF last.calcVelocity THEN 2 ELSE 0)
    IN  last.rrd = r.rrd /\ last.err = r.err

\* a call was answered from the record and the Sun vector left by earlier
\* calls
C28_Witness ==
  /\ last.op = "CalculatePV" /\ last.called /\ last.err = ""
  /\ last.target = 3 /\ last.center = 11 /\ last.k = LastEpoch - 1
  /\ last.reads = 0 /\ last.rrd[1] # RZero

\* C29: for an in-range epoch and pairwise distinct bodies a, b, c the
\* state of a relative to c is, component by component and exactly, the
\* state of a relative to b plus the state of b relative to c, the two being
\* asked for next on the same handle.
C29_RelativeStatesAdd ==
  (last.op = "CalculatePV" /\ last.called /\ last.err = "" /\ pc = "ready"
   /\ {last.target, last.center} \subseteq PairBodies) =>
    \A b \in PairBodies \ {last.target, last.center} :
      LET et == EpochAt(file, last.k)
          ab == Pleph(ephem, Env("none"), et, last.target, b, 2)
          bc == Pleph(ab.ephem, Env("none"), et, b, last.center, 2)
      IN  /\ ab.err = "" /\ bc.err = ""
          /\ \A j \in 0..5 : last.rrd[j] = RAdd(ab.rrd[j], bc.rrd[j])

\* the Moon relative to the Sun, which is not at the Moon
C29_Witness ==
  /\ last.op = "CalculatePV" /\ last.called /\ last.err = "" /\ pc = "ready"
  /\ last.target = 10 /\ last.center = 11 /\ last.calcVelocity
  /\ \E j \in 0..5 : last.rrd[j] # RZero

(***************************************************************************)
(* SpecOrder: calls in which more than one check of Pleph could refuse.    *)
(***************************************************************************)
OrderFiles == {FileFull, FileOld}

OrderEpochs == {0 - 1, 1}

OrderCenters == {0, 3, 20}

\* calls with invalid body indices, which the environment may fail as well
OrderInvalid == {<<0, 3>>, <<3, 18>>, <<18, 0>>}

InitOrder == InitOn(OrderFiles)

NextOrder ==
  \/ NewEphemeris(FALSE, "none")
  \/ \E k \in OrderEpochs, t \in {15, 17}, c \in OrderCenters, v \in BOOLEAN :
       CalculatePV(k, t, c, v, "none")
  \/ \E k \in OrderEpochs, p \in OrderInvalid, fault \in {"none", "seek", "read"} :
       CalculatePV(k, p[1], p[2], TRUE, fault)
  \/ \E k \in OrderEpochs : CalculatePV(k, 3, 11, TRUE, "none")

SpecOrder == InitOrder /\ [][NextOrder]_vars

\* C30: for target # center: (a) a target in 14..17 is answered without
\* looking at the center: whatever the center, the answer is the quantity
\* as State interpolates it, with nothing subtracted, or the error;
\* (b) a quantity the file lacks is refused with ErrQuantityNotInEphemeris
\* also when the epoch is out of range; (c) for any other target an invalid
\* index is refused with ErrInvalidIndex, without a call of State, also when
\* the epoch is out of range or the seek or the read would fail.
C30_ChecksInOrder ==
  (last.op = "CalculatePV" /\ last.target # last.center) =>
    LET et == EpochAt(file, last.k)
        v == IF last.calcVelocity THEN 2 ELSE 0
        i == last.target - 4
    IN  /\ last.target \in 14..17 =>
             /\ \A c \in (OrderCenters \cup 1..13) \ {last.target} :
                  LET r == Pleph(ephem, Env("none"), et, last.target, c, v)
                  IN  r.err = last.err /\ r.rrd = last.rrd
             /\ ephem.ipt[i + 1][1] = 0 =>
                  (last.err = "ErrQuantityNotInEphemeris" /\ ~last.called)
             /\ (ephem.ipt[i + 1][1] > 0 /\ last.k \in OutOfRange) =>
                  last.err = "ErrOutsideRange"
             /\ (ephem.ipt[i + 1][1] > 0 /\ last.k \in InRange) =>
                  LET rf == recordAndFraction(ephem, et)
                      row == ephem.ipt[i + 1]
                  IN  /\ last.err = ""
                      /\ last.rrd =
                           interp(iinfoInit,
                                  sliceFrom(cacheArray(file, ephem), ephem.ncoeff,
                                            row[0] - 1),
                                  <<rf[2], ephem.ephemStep>>, row[1],
                                  quantityDimension(i + 1), row[2], last.list[i],
                                  zeroVec(6)).posvel
        /\ (last.target \notin 14..17 /\ invalidIndex(last.target, last.center)) =>
             /\ last.err = "ErrInvalidIndex"
             /\ ~last.called /\ last.seeks = <<>> /\ last.reads = 0

\* TT-TDB was asked for on a file without it, with an invalid center and an
\* epoch out of range
C30_Witness ==
  /\ last.op = "CalculatePV" /\ file = FileOld
  /\ last.target = 17 /\ last.center = 0 /\ last.k \in OutOfRange
  /\ last.err = "ErrQuantityNotInEphemeris"

====
